---------------------------- MODULE Spec2Model ----------------------------
(***************************************************************************)
(* A model of qc_baselib's Result store (src/qc_baselib/result.py) and of  *)
(* the pydantic models it validates with (src/qc_baselib/models/result.py).*)
(*                                                                         *)
(* Strings that the code parses or pattern-matches (rule uids and their    *)
(* four fields) are sequences of one-character strings; names that the     *)
(* code only compares for equality are TLA+ strings.                       *)
(***************************************************************************)
EXTENDS Integers, Sequences, FiniteSets, TLC

VARIABLES
    report,       \* report[r]: Result._report_results of instance r (None or a CheckerResults)
    id_manager,   \* id_manager[r]: the instance attribute _id of r._id_manager: <<>> until written, then <<n>>
    class_id,     \* the class attribute IDManager._id
    last,         \* the last call made: instance, operation, whether it returned, what it returned
    hist,         \* hist[r]: bookkeeping of the register_issue calls made on r
    configuration, \* Configuration._configuration of the one Configuration (None or a Config)
    etree         \* etree[e]: the parent of the lxml element e that the caller holds (None for a root)

vars == <<report, id_manager, class_id, last, hist, configuration, etree>>

\* Python's None, as a value of a string-valued field or a return value
None == "None"
\* Python's None as the value of Result._report_results
NoReport == [none |-> TRUE]
\* Python's None as the value of Configuration._configuration
NoConfig == [none |-> TRUE]

\* The Result instances of the process.
Instances == {"A", "B"}

----------------------------------------------------------------------------
(* Bounds of the model *)

\* register_issue calls per instance (the id counter itself is unbounded)
MaxIssueCalls == 3
\* register_issue calls in the specification that also sets checker status
MaxStatusIssueCalls == 2
MaxLoadIssueCalls == 2
\* register_issue calls per instance in the specification of two instances
MaxTwoIssueCalls == 2
\* addressed rules per checker (register_rule appends without limit)
MaxRules == 1
\* register_issue calls in the specification of locations and summaries
MaxLocIssueCalls == 1
\* bundles, checkers and params a Configuration holds after a registration
\* or a set_*_param call (they append without limit)
MaxConfigSize == 3
\* bundles, checkers and params of the Result that params are copied into
\* (every copy appends)
MaxCopySize == 4
\* register_issue calls on the Result that is queried
MaxQueryIssueCalls == 1
\* texts in a summary, added or generated (every add_*_summary call and every
\* write_to_file with generate_summary appends one)
MaxSummaryTexts == 2
\* register_issue calls, and add_domain_specific_info calls that return, on
\* the Result that domain specific information is added to
MaxInfoIssueCalls == 2
MaxInfos == 2
\* children of the <Config> element of a file that is parsed in two orders
MaxFileChildren == 3
\* entries of a document in that specification: params, rules, issues,
\* locations, domain specific infos, statuses set and summary characters
\* (every add_* call appends without limit)
MaxLocSize == 3

----------------------------------------------------------------------------
(* Characters and the regular expressions of models/result.py *)

Lower == {"a", "b", "c", "d", "e", "f", "g", "h", "i", "j", "k", "l", "m",
          "n", "o", "p", "q", "r", "s", "t", "u", "v", "w", "x", "y", "z"}
Upper == {"A", "B", "C", "D", "E", "F", "G", "H", "I", "J", "K", "L", "M",
          "N", "O", "P", "Q", "R", "S", "T", "U", "V", "W", "X", "Y", "Z"}
Digit == {"0", "1", "2", "3", "4", "5", "6", "7", "8", "9"}
\* \w of Python's re on the ASCII range
Word == Lower \cup Upper \cup Digit \cup {"_"}

\* str.find(sep) from position i on: the index of the first sep, 0 for none
RECURSIVE Find(_, _, _)
Find(s, sep, i) ==
    IF i > Len(s) THEN 0
    ELSE IF s[i] = sep THEN i
    ELSE Find(s, sep, i + 1)

\* str.split(sep): the pieces of s between the occurrences of sep
RECURSIVE Split(_, _)
Split(s, sep) ==
    LET k == Find(s, sep, 1)
    IN IF k = 0
       THEN <<s>>
       ELSE <<SubSeq(s, 1, k - 1)>> \o Split(SubSeq(s, k + 1, Len(s)), sep)

\* sep.join(parts)
RECURSIVE Join(_, _)
Join(parts, sep) ==
    IF Len(parts) = 0 THEN <<>>
    ELSE IF Len(parts) = 1 THEN parts[1]
    ELSE parts[1] \o <<sep>> \o Join(Tail(parts), sep)

AllIn(s, chars) == \A i \in 1..Len(s) : s[i] \in chars

\* s is at least min pieces joined by sep, each piece one character of first
\* followed by characters of rest.  (\E x \in {e} : ... names the value of e.)
Pieces(s, sep, min, first, rest) ==
    \E p \in {Split(s, sep)} :
        /\ Len(p) >= min
        /\ \A i \in 1..Len(p) :
               \E q \in {p[i]} :
                   Len(q) >= 1 /\ q[1] \in first /\ AllIn(q, rest)

\* ^((\w+(\.\w+)+))$
EmanatingEntityPattern(s) == Pieces(s, ".", 2, Word, Word)

\* ^(([a-z]+))$
StandardPattern(s) == Len(s) >= 1 /\ AllIn(s, Lower)

\* ^(([0-9]+(\.[0-9]+)+))$
DefinitionSettingPattern(s) == Pieces(s, ".", 2, Digit, Digit)

\* ^((([a-z][\w_]*)\.)*)([a-z][\w_]*)$
RuleFullNamePattern(s) == Pieces(s, ".", 1, Lower, Word)

\* ^((\w+(\.\w+)+)):(([a-z]+)):(([0-9]+(\.[0-9]+)+)):((([a-z][\w_]*)\.)*)([a-z][\w_]*)$
\* the four field patterns joined by ':'.  No field pattern admits ':', so a
\* match is a split into exactly four matching parts.
RuleUidPattern(s) ==
    \E p \in {Split(s, ":")} :
        /\ Len(p) = 4
        /\ \E q \in {p[1]} : EmanatingEntityPattern(q)
        /\ \E q \in {p[2]} : StandardPattern(q)
        /\ \E q \in {p[3]} : DefinitionSettingPattern(q)
        /\ \E q \in {p[4]} : RuleFullNamePattern(q)

----------------------------------------------------------------------------
(* Enumerations *)

IssueSeverity == {1, 2, 3}                       \* ERROR, WARNING, INFORMATION
StatusType == {"completed", "error", "skipped"}
SKIPPED == "skipped"
COMPLETED == "completed"

DEFAULT_REPORT_VERSION == "0.0.1"

----------------------------------------------------------------------------
(* The pydantic models of models/result.py and models/common.py.  A        *)
(* constructor yields [ok, value]: ok is FALSE when validation raises.     *)

Valid(v) == [ok |-> TRUE, value |-> v]
Invalid == [ok |-> FALSE, value |-> None]

ParamType(name, value) == [name |-> name, value |-> value]

\* RuleType(**kw): kw holds the keyword arguments supplied.  Supplied fields
\* are matched against their patterns, defaults ("") are not; then the three
\* "after" validators run in the order of their definition.
RuleFieldPattern(n, s) ==
    CASE n = "emanating_entity" -> EmanatingEntityPattern(s)
      [] n = "standard" -> StandardPattern(s)
      [] n = "definition_setting" -> DefinitionSettingPattern(s)
      [] n = "rule_full_name" -> RuleFullNamePattern(s)
      [] n = "rule_uid" -> RuleUidPattern(s)

\* load_fields_into_uid that composes the uid with the standard first
load_fields_into_uid_standard_first(m) ==
    IF /\ m.emanating_entity # <<>>
       /\ m.standard # <<>>
       /\ m.definition_setting # <<>>
       /\ m.rule_full_name # <<>>
    THEN Valid([m EXCEPT !.rule_uid =
                   Join(<<m.standard, m.emanating_entity,
                          m.definition_setting, m.rule_full_name>>, ":")])
    ELSE Valid(m)

load_fields_into_uid(m) ==
    IF /\ m.emanating_entity # <<>>
       /\ m.standard # <<>>
       /\ m.definition_setting # <<>>
       /\ m.rule_full_name # <<>>
    THEN Valid([m EXCEPT !.rule_uid =
                   Join(<<m.emanating_entity, m.standard,
                          m.definition_setting, m.rule_full_name>>, ":")])
    ELSE Valid(m)

\* load_uid_into_fields with standard and definition_setting taken from each
\* other's element
load_uid_into_fields_crossed(m) ==
    IF /\ m.emanating_entity = <<>>
       /\ m.standard = <<>>
       /\ m.definition_setting = <<>>
       /\ m.rule_full_name = <<>>
    THEN LET elements == Split(m.rule_uid, ":")
         IN IF Len(elements) < 4
            THEN Invalid
            ELSE Valid([m EXCEPT !.emanating_entity = elements[1],
                                 !.standard = elements[3],
                                 !.definition_setting = elements[2],
                                 !.rule_full_name = elements[4]])
    ELSE Valid(m)

load_uid_into_fields(m) ==
    IF /\ m.emanating_entity = <<>>
       /\ m.standard = <<>>
       /\ m.definition_setting = <<>>
       /\ m.rule_full_name = <<>>
    THEN LET elements == Split(m.rule_uid, ":")
         IN IF Len(elements) < 4
            THEN Invalid
            ELSE Valid([m EXCEPT !.emanating_entity = elements[1],
                                 !.standard = elements[2],
                                 !.definition_setting = elements[3],
                                 !.rule_full_name = elements[4]])
    ELSE Valid(m)

check_any_empty(m) ==
    IF \/ m.rule_uid = <<>>
       \/ m.emanating_entity = <<>>
       \/ m.standard = <<>>
       \/ m.definition_setting = <<>>
       \/ m.rule_full_name = <<>>
    THEN Invalid
    ELSE Valid(m)

RuleType(kw) ==
    LET F(n) == IF n \in DOMAIN kw THEN kw[n] ELSE <<>>
        m0 == [emanating_entity |-> F("emanating_entity"),
               standard |-> F("standard"),
               definition_setting |-> F("definition_setting"),
               rule_full_name |-> F("rule_full_name"),
               rule_uid |-> F("rule_uid")]
    IN IF \E n \in DOMAIN kw : ~RuleFieldPattern(n, kw[n])
       THEN Invalid
       ELSE LET m1 == load_fields_into_uid(m0)
                m2 == load_uid_into_fields(m1.value)
            IN IF ~m2.ok THEN Invalid ELSE check_any_empty(m2.value)

\* Arguments that pydantic coerces carry their Python type: [int |-> 1],
\* [str |-> "x"], [list |-> <<..>>], [none |-> TRUE].
IsInt(v) == "int" \in DOMAIN v
IsStr(v) == "str" \in DOMAIN v
IsList(v) == "list" \in DOMAIN v

\* FileLocationType(row=, column=)
FileLocationType(row, column) ==
    IF IsInt(row) /\ IsInt(column)
    THEN Valid([row |-> row.int, column |-> column.int])
    ELSE Invalid

\* XMLLocationType(xpath=)
XMLLocationType(xpath) == IF IsStr(xpath) THEN Valid([xpath |-> xpath.str]) ELSE Invalid

\* InertialLocationType(x=, y=, z=), a float being any number
InertialLocationType(x, y, z) ==
    IF IsInt(x) /\ IsInt(y) /\ IsInt(z)
    THEN Valid([x |-> x.int, y |-> y.int, z |-> z.int])
    ELSE Invalid

\* LocationType(file_location=, xml_location=, inertial_location=, description=)
\* with its validator check_at_least_one_element
LocationType(file_location, xml_location, inertial_location, description) ==
    IF Len(file_location) + Len(xml_location) + Len(inertial_location) < 1
    THEN Invalid
    ELSE Valid([file_location |-> file_location,
                xml_location |-> xml_location,
                inertial_location |-> inertial_location,
                description |-> description])

\* IssueType(issue_id=, description=, level=, rule_uid=)
IssueType(issue_id, description, level, rule_uid) ==
    IF level \in IssueSeverity /\ RuleUidPattern(rule_uid)
    THEN Valid([issue_id |-> issue_id,
                description |-> description,
                level |-> level,
                rule_uid |-> rule_uid,
                locations |-> <<>>,
                domain_specific_info |-> <<>>])
    ELSE Invalid

\* Variants of the two validators: one that accepts a checker as soon as one
\* issue matches, one that tolerates a single issue on a skipped checker.
check_issue_ruleUID_matches_any(checker) ==
    IF Len(checker.issues) # 0
    THEN LET addressed_rule_uids ==
                 {checker.addressed_rule[i].rule_uid :
                      i \in 1..Len(checker.addressed_rule)}
         IN \E i \in 1..Len(checker.issues) :
                checker.issues[i].rule_uid \in addressed_rule_uids
    ELSE TRUE

check_skipped_status_containing_two_issues(checker) ==
    ~(checker.status = SKIPPED /\ Len(checker.issues) > 1)

\* The two "after" validators of CheckerType: TRUE when the validator passes.
check_issue_ruleUID_matches_addressed_rules(checker) ==
    IF Len(checker.issues) # 0
    THEN LET addressed_rule_uids ==
                 {checker.addressed_rule[i].rule_uid :
                      i \in 1..Len(checker.addressed_rule)}
         IN \A i \in 1..Len(checker.issues) :
                checker.issues[i].rule_uid \in addressed_rule_uids
    ELSE TRUE

check_skipped_status_containing_issues(checker) ==
    ~(checker.status = SKIPPED /\ Len(checker.issues) > 0)

\* CheckerType.model_validate(checker) on an instance: the "after" validators
\* run on the instance as it is; TRUE when none raises.
CheckerType_model_validate(checker) ==
    /\ check_issue_ruleUID_matches_addressed_rules(checker)
    /\ check_skipped_status_containing_issues(checker)

\* CheckerType(checker_id=, description=, summary=)
CheckerType(checker_id, description, summary) ==
    [checker_id |-> checker_id,
     description |-> description,
     summary |-> summary,
     status |-> None,
     params |-> <<>>,
     addressed_rule |-> <<>>,
     issues |-> <<>>,
     metadata |-> <<>>]

\* CheckerBundleType(build_date=, description=, name=, version=, summary=)
CheckerBundleType(build_date, description, name, version, summary) ==
    [name |-> name,
     build_date |-> build_date,
     description |-> description,
     version |-> version,
     summary |-> summary,
     params |-> <<>>,
     checkers |-> <<>>]

\* CheckerResults(version=)
CheckerResults(version) == [version |-> version, checker_bundles |-> <<>>]

----------------------------------------------------------------------------
(* IDManager (result.py).  _id = -1 is a class attribute; self._id += 1    *)
(* reads the instance attribute if the instance has one and the class      *)
(* attribute otherwise, and writes the instance attribute.                 *)

IDManager_id == -1

\* Variants of get_next_free_id that the claims about the counter must tell
\* from the code: one that returns the id without storing it, one that counts
\* on the class attribute, which every IDManager shares.
get_next_free_id_not_stored(self, cls) ==
    LET n == (IF self = <<>> THEN cls ELSE self[1]) + 1
    IN [self |-> self, cls |-> cls, ret |-> n]

get_next_free_id_on_class(self, cls) ==
    [self |-> self, cls |-> cls + 1, ret |-> cls + 1]

\* self: the instance's own _id (<<>> or <<n>>), cls: the class attribute.
\* Yields the two after the call and the id returned.
get_next_free_id(self, cls) ==
    LET n == (IF self = <<>> THEN cls ELSE self[1]) + 1
    IN [self |-> <<n>>, cls |-> cls, ret |-> n]

----------------------------------------------------------------------------
(* Lookups of Result: the index of the first match, 0 for None *)

\* next(generator, None) over a sequence of match results
FirstIndex(matches) ==
    IF \E i \in 1..Len(matches) : matches[i]
    THEN CHOOSE i \in 1..Len(matches) :
             matches[i] /\ \A j \in 1..(i - 1) : ~matches[j]
    ELSE 0

\* _get_checker_bundle_without_error, on an initialized report
get_checker_bundle_without_error(doc, checker_bundle_name) ==
    FirstIndex([i \in 1..Len(doc.checker_bundles) |->
                   doc.checker_bundles[i].name = checker_bundle_name])

\* _get_checker_without_error
get_checker_without_error(bundle, checker_id) ==
    FirstIndex([i \in 1..Len(bundle.checkers) |->
                   bundle.checkers[i].checker_id = checker_id])

----------------------------------------------------------------------------
(* The operations of Result, as functions of the document.  Each yields    *)
(* [ok, ret, err, doc]: whether the call returned (ok) or raised, the      *)
(* value returned, the exception raised, and the document the call leaves  *)
(* behind, which for a call that raised is the document as mutated up to   *)
(* the raise.                                                              *)

\* The exceptions the calls raise
RuntimeError == "RuntimeError"
ValidationError == "ValidationError"
FileNotFoundError == "FileNotFoundError"
AttributeError == "AttributeError"

Return(ret, doc) == [ok |-> TRUE, ret |-> ret, err |-> None, doc |-> doc]
Raise(err, doc) == [ok |-> FALSE, ret |-> None, err |-> err, doc |-> doc]

\* Variants of the registrations: a bundle registered without the name
\* check, a checker appended before the id check.
Result_register_checker_bundle_unchecked(doc, description, name, version, build_date, summary) ==
    LET bundle == CheckerBundleType(build_date, description, name, version, summary)
        doc1 == IF doc = NoReport THEN CheckerResults(DEFAULT_REPORT_VERSION) ELSE doc
    IN Return(None, [doc1 EXCEPT !.checker_bundles = Append(@, bundle)])

Result_register_checker_append_first(doc, checker_bundle_name, checker_id, description, summary) ==
    LET checker == CheckerType(checker_id, description, summary)
    IN IF doc = NoReport THEN Raise(RuntimeError, doc)
       ELSE LET b == get_checker_bundle_without_error(doc, checker_bundle_name)
            IN IF b = 0 THEN Raise(RuntimeError, doc)
               ELSE LET doc1 == [doc EXCEPT !.checker_bundles[b].checkers =
                                               Append(@, checker)]
                    IN IF \E i \in 1..Len(doc.checker_bundles[b].checkers) :
                              doc.checker_bundles[b].checkers[i].checker_id = checker_id
                       THEN Raise(RuntimeError, doc1)
                       ELSE Return(None, doc1)

Result_register_checker_bundle(doc, description, name, version, build_date, summary) ==
    LET bundle == CheckerBundleType(build_date, description, name, version, summary)
        doc1 == IF doc = NoReport THEN CheckerResults(DEFAULT_REPORT_VERSION) ELSE doc
    IN IF \E i \in 1..Len(doc1.checker_bundles) : doc1.checker_bundles[i].name = name
       THEN Raise(RuntimeError, doc1)
       ELSE Return(None, [doc1 EXCEPT !.checker_bundles = Append(@, bundle)])

Result_register_checker(doc, checker_bundle_name, checker_id, description, summary) ==
    LET checker == CheckerType(checker_id, description, summary)
    IN IF doc = NoReport THEN Raise(RuntimeError, doc)
       ELSE LET b == get_checker_bundle_without_error(doc, checker_bundle_name)
            IN IF b = 0 THEN Raise(RuntimeError, doc)
               ELSE IF \E i \in 1..Len(doc.checker_bundles[b].checkers) :
                           doc.checker_bundles[b].checkers[i].checker_id = checker_id
               THEN Raise(RuntimeError, doc)
               ELSE Return(None,
                        [doc EXCEPT !.checker_bundles[b].checkers = Append(@, checker)])

Result_register_rule(doc, checker_bundle_name, checker_id, emanating_entity, standard, definition_setting, rule_full_name) ==
    LET rule == RuleType([emanating_entity |-> emanating_entity,
                          standard |-> standard,
                          definition_setting |-> definition_setting,
                          rule_full_name |-> rule_full_name])
    IN IF ~rule.ok THEN Raise(ValidationError, doc)
       ELSE IF doc = NoReport THEN Raise(RuntimeError, doc)
       ELSE LET b == get_checker_bundle_without_error(doc, checker_bundle_name)
            IN IF b = 0 THEN Raise(RuntimeError, doc)
               ELSE LET c == get_checker_without_error(doc.checker_bundles[b], checker_id)
                    IN IF c = 0 THEN Raise(RuntimeError, doc)
                       ELSE Return(rule.value.rule_uid,
                                [doc EXCEPT !.checker_bundles[b].checkers[c].addressed_rule =
                                                Append(@, rule.value)])

\* A variant of register_issue that gives the id back when the call raises.
Result_register_issue_rollback(doc, self, cls, checker_bundle_name, checker_id, description, level, rule_uid) ==
    LET a == get_next_free_id(self, cls)
        issue_id == a.ret
        issue == IssueType(issue_id, description, level, rule_uid)
        Ok(o) == [ok |-> o.ok, ret |-> o.ret, err |-> o.err, doc |-> o.doc,
                  self |-> a.self, cls |-> a.cls]
        Back(o) == [ok |-> o.ok, ret |-> o.ret, err |-> o.err, doc |-> o.doc,
                    self |-> self, cls |-> cls]
    IN IF ~issue.ok THEN Back(Raise(ValidationError, doc))
       ELSE IF doc = NoReport THEN Back(Raise(RuntimeError, doc))
       ELSE LET b == get_checker_bundle_without_error(doc, checker_bundle_name)
            IN IF b = 0 THEN Back(Raise(RuntimeError, doc))
               ELSE LET c == get_checker_without_error(doc.checker_bundles[b], checker_id)
                    IN IF c = 0 THEN Back(Raise(RuntimeError, doc))
                       ELSE LET doc1 == [doc EXCEPT
                                            !.checker_bundles[b].checkers[c].issues =
                                                Append(@, issue.value)]
                            IN IF CheckerType_model_validate(
                                      doc1.checker_bundles[b].checkers[c])
                               THEN Ok(Return(issue_id, doc1))
                               ELSE Back(Raise(ValidationError, doc1))

\* self, cls: the id manager's instance attribute and class attribute; the
\* outcome also carries the two as the call leaves them.
Result_register_issue(doc, self, cls, checker_bundle_name, checker_id, description, level, rule_uid) ==
    LET a == get_next_free_id(self, cls)
        issue_id == a.ret
        issue == IssueType(issue_id, description, level, rule_uid)
        Out(o) == [ok |-> o.ok, ret |-> o.ret, err |-> o.err, doc |-> o.doc,
                   self |-> a.self, cls |-> a.cls]
    IN IF ~issue.ok THEN Out(Raise(ValidationError, doc))
       ELSE IF doc = NoReport THEN Out(Raise(RuntimeError, doc))
       ELSE LET b == get_checker_bundle_without_error(doc, checker_bundle_name)
            IN IF b = 0 THEN Out(Raise(RuntimeError, doc))
               ELSE LET c == get_checker_without_error(doc.checker_bundles[b], checker_id)
                    IN IF c = 0 THEN Out(Raise(RuntimeError, doc))
                       ELSE LET doc1 == [doc EXCEPT
                                            !.checker_bundles[b].checkers[c].issues =
                                                Append(@, issue.value)]
                            IN IF CheckerType_model_validate(
                                      doc1.checker_bundles[b].checkers[c])
                               THEN Out(Return(issue_id, doc1))
                               ELSE Out(Raise(ValidationError, doc1))

\* checker.status = status runs under validate_assignment: the field is
\* written and the "after" validators then run on the checker; model_validate
\* runs them once more.
Result_set_checker_status(doc, checker_bundle_name, checker_id, status) ==
    IF doc = NoReport THEN Raise(RuntimeError, doc)
    ELSE LET b == get_checker_bundle_without_error(doc, checker_bundle_name)
         IN IF b = 0 THEN Raise(RuntimeError, doc)
            ELSE LET c == get_checker_without_error(doc.checker_bundles[b], checker_id)
                 IN IF c = 0 THEN Raise(RuntimeError, doc)
                    ELSE LET doc1 == [doc EXCEPT
                                         !.checker_bundles[b].checkers[c].status = status]
                         IN IF CheckerType_model_validate(
                                   doc1.checker_bundles[b].checkers[c])
                            THEN Return(None, doc1)
                            ELSE Raise(ValidationError, doc1)

Result_add_param_to_checker_bundle(doc, checker_bundle_name, name, value) ==
    IF doc = NoReport THEN Raise(RuntimeError, doc)
    ELSE LET b == get_checker_bundle_without_error(doc, checker_bundle_name)
         IN IF b = 0 THEN Raise(RuntimeError, doc)
            ELSE IF \E i \in 1..Len(doc.checker_bundles[b].params) :
                        doc.checker_bundles[b].params[i].name = name
            THEN Raise(RuntimeError, doc)
            ELSE Return(None, [doc EXCEPT !.checker_bundles[b].params =
                                              Append(@, ParamType(name, value))])

Result_add_param_to_checker(doc, checker_bundle_name, checker_id, name, value) ==
    IF doc = NoReport THEN Raise(RuntimeError, doc)
    ELSE LET b == get_checker_bundle_without_error(doc, checker_bundle_name)
         IN IF b = 0 THEN Raise(RuntimeError, doc)
            ELSE LET c == get_checker_without_error(doc.checker_bundles[b], checker_id)
                 IN IF c = 0 THEN Raise(RuntimeError, doc)
                    ELSE IF \E i \in 1..Len(doc.checker_bundles[b].checkers[c].params) :
                                doc.checker_bundles[b].checkers[c].params[i].name = name
                    THEN Raise(RuntimeError, doc)
                    ELSE Return(None,
                             [doc EXCEPT !.checker_bundles[b].checkers[c].params =
                                             Append(@, ParamType(name, value))])

\* _get_issue: the index of the first issue with the id, 0 for none
get_issue_or_first(checker, issue_id) ==
    IF \E i \in 1..Len(checker.issues) : checker.issues[i].issue_id = issue_id
    THEN FirstIndex([i \in 1..Len(checker.issues) |-> checker.issues[i].issue_id = issue_id])
    ELSE IF checker.issues = <<>> THEN 0 ELSE 1

get_issue(checker, issue_id) ==
    FirstIndex([i \in 1..Len(checker.issues) |-> checker.issues[i].issue_id = issue_id])

\* The lookups every call below starts with: _get_checker_bundle, _get_checker
\* and _get_issue, each raising RuntimeError.  Yields [ok, b, c, i].
Resolve(doc, checker_bundle_name, checker_id, issue_id) ==
    IF doc = NoReport THEN [ok |-> FALSE]
    ELSE LET b == get_checker_bundle_without_error(doc, checker_bundle_name)
         IN IF b = 0 THEN [ok |-> FALSE]
            ELSE LET c == get_checker_without_error(doc.checker_bundles[b], checker_id)
                 IN IF c = 0 THEN [ok |-> FALSE]
                    ELSE LET i == get_issue(doc.checker_bundles[b].checkers[c], issue_id)
                         IN IF i = 0 THEN [ok |-> FALSE]
                            ELSE [ok |-> TRUE, b |-> b, c |-> c, i |-> i]

\* issue.locations.append(LocationType(..)): the location is built, and
\* validated, after the lookups
AppendLocation(doc, checker_bundle_name, checker_id, issue_id, file_location, xml_location, inertial_location, description) ==
    LET t == Resolve(doc, checker_bundle_name, checker_id, issue_id)
    IN IF ~t.ok THEN Raise(RuntimeError, doc)
       ELSE LET location == LocationType(file_location, xml_location,
                                         inertial_location, description)
            IN IF ~location.ok THEN Raise(ValidationError, doc)
               ELSE Return(None,
                        [doc EXCEPT !.checker_bundles[t.b].checkers[t.c].issues[t.i].locations =
                                        Append(@, location.value)])

Result_add_file_location(doc, checker_bundle_name, checker_id, issue_id, row, column, description) ==
    LET file_location == FileLocationType(row, column)
    IN IF ~file_location.ok THEN Raise(ValidationError, doc)
       ELSE AppendLocation(doc, checker_bundle_name, checker_id, issue_id,
                           <<file_location.value>>, <<>>, <<>>, description)

\* As add_xml_location, keeping the first xpath of a list only
Result_add_xml_location_first_path(doc, checker_bundle_name, checker_id, issue_id, xpath, description) ==
    LET paths == IF IsStr(xpath) THEN <<xpath>>
                 ELSE IF IsList(xpath) /\ xpath.list # <<>> THEN <<xpath.list[1]>>
                 ELSE <<>>
        xml_locations == [i \in 1..Len(paths) |-> XMLLocationType(paths[i])]
    IN IF \E i \in 1..Len(paths) : ~xml_locations[i].ok
       THEN Raise(ValidationError, doc)
       ELSE AppendLocation(doc, checker_bundle_name, checker_id, issue_id, <<>>,
                           [i \in 1..Len(paths) |-> xml_locations[i].value], <<>>,
                           description)

Result_add_xml_location(doc, checker_bundle_name, checker_id, issue_id, xpath, description) ==
    LET paths == IF IsStr(xpath) THEN <<xpath>>
                 ELSE IF IsList(xpath) THEN [i \in 1..Len(xpath.list) |-> xpath.list[i]]
                 ELSE <<>>
        xml_locations == [i \in 1..Len(paths) |-> XMLLocationType(paths[i])]
    IN IF \E i \in 1..Len(paths) : ~xml_locations[i].ok
       THEN Raise(ValidationError, doc)
       ELSE AppendLocation(doc, checker_bundle_name, checker_id, issue_id, <<>>,
                           [i \in 1..Len(paths) |-> xml_locations[i].value], <<>>,
                           description)

Result_add_inertial_location(doc, checker_bundle_name, checker_id, issue_id, x, y, z, description) ==
    LET inertial_location == InertialLocationType(x, y, z)
    IN IF ~inertial_location.ok THEN Raise(ValidationError, doc)
       ELSE AppendLocation(doc, checker_bundle_name, checker_id, issue_id,
                           <<>>, <<>>, <<inertial_location.value>>, description)

\* An lxml element: the identity of the object (None for an object that
\* nothing else refers to) and its content
etree_Element(id, tag) == [id |-> id, tag |-> tag]

\* deepcopy that hands back the object it was given
deepcopy_same(element) == element

\* copy.deepcopy of an lxml element: a new object with the same content, which
\* nothing else refers to (it bears no identity)
deepcopy(element) == [element EXCEPT !.id = None]

\* The containers of the document without the elements of those identities
etree_remove(doc, ids) ==
    LET kept(children) ==
            SelectSeq(children, LAMBDA e : ~(e.id # None /\ e.id \in ids))
    IN [doc EXCEPT !.checker_bundles =
        [b \in 1..Len(@) |-> [@[b] EXCEPT !.checkers =
            [c \in 1..Len(@) |-> [@[c] EXCEPT !.issues =
                [i \in 1..Len(@) |-> [@[i] EXCEPT !.domain_specific_info =
                    [k \in 1..Len(@) |->
                        [@[k] EXCEPT !.children = kept(@)]]]]]]]]]

\* lxml's _Element.append in a loop: an element has one parent, so appending
\* an object that stands in a tree takes it out of the place where it stood
etree_append_all(elements) ==
    LET F[k \in 0..Len(elements)] ==
            IF k = 0 THEN <<>>
            ELSE Append(SelectSeq(F[k - 1],
                                  LAMBDA e : ~(e.id # None /\ e.id = elements[k].id)),
                        elements[k])
    IN F[Len(elements)]

\* The identities of the objects among the elements
ObjectsOf(elements) ==
    {elements[k].id : k \in {j \in 1..Len(elements) : elements[j].id # None}}

\* add_domain_specific_info: a DomainSpecificInfo element with the name, to
\* which deepcopy(xml_info_element) is appended for every element of xml_info,
\* is appended to issue.domain_specific_info
Result_add_domain_specific_info(doc, checker_bundle_name, checker_id, issue_id, domain_specific_info_name, xml_info) ==
    LET t == Resolve(doc, checker_bundle_name, checker_id, issue_id)
    IN IF ~t.ok THEN Raise(RuntimeError, doc)
       ELSE LET to_append == [k \in 1..Len(xml_info) |-> deepcopy(xml_info[k])]
                doc1 == etree_remove(doc, ObjectsOf(to_append))
            IN Return(None,
                [doc1 EXCEPT !.checker_bundles[t.b].checkers[t.c].issues[t.i].domain_specific_info =
                                Append(@, [name |-> domain_specific_info_name,
                                           children |-> etree_append_all(to_append)])])

\* The parents of the caller's elements after the call: an object that was
\* appended has the DomainSpecificInfo element for parent
etree_after_add(parents, xml_info) ==
    [e \in DOMAIN parents |->
        IF e \in ObjectsOf([k \in 1..Len(xml_info) |-> deepcopy(xml_info[k])])
        THEN "DomainSpecificInfo" ELSE parents[e]]

\* get_domain_specific_info: a DomainSpecificInfoContent per element of
\* issue.domain_specific_info, with its name attribute and its children
Result_get_domain_specific_info(doc, checker_bundle_name, checker_id, issue_id) ==
    LET t == Resolve(doc, checker_bundle_name, checker_id, issue_id)
    IN IF ~t.ok THEN Raise(RuntimeError, doc)
       ELSE LET infos == doc.checker_bundles[t.b].checkers[t.c].issues[t.i].domain_specific_info
            IN Return([k \in 1..Len(infos) |->
                          [name |-> infos[k].name, content |-> infos[k].children]],
                      doc)

\* summary = content: what is there is replaced
AddSummary_overwriting(summary, content) == content

\* summary = content if summary == "" else summary + " " + content
AddSummary(summary, content) ==
    IF summary = "" THEN content ELSE summary \o " " \o content

Result_add_checker_bundle_summary(doc, checker_bundle_name, content) ==
    IF doc = NoReport THEN Raise(RuntimeError, doc)
    ELSE LET b == get_checker_bundle_without_error(doc, checker_bundle_name)
         IN IF b = 0 THEN Raise(RuntimeError, doc)
            ELSE Return(None, [doc EXCEPT !.checker_bundles[b].summary =
                                              AddSummary(@, content)])

Result_add_checker_summary(doc, checker_bundle_name, checker_id, content) ==
    IF doc = NoReport THEN Raise(RuntimeError, doc)
    ELSE LET b == get_checker_bundle_without_error(doc, checker_bundle_name)
         IN IF b = 0 THEN Raise(RuntimeError, doc)
            ELSE LET c == get_checker_without_error(doc.checker_bundles[b], checker_id)
                 IN IF c = 0 THEN Raise(RuntimeError, doc)
                    ELSE Return(None,
                             [doc EXCEPT !.checker_bundles[b].checkers[c].summary =
                                             AddSummary(@, content)])

\* register_rule_by_uid splits the uid, passes the first four parts to
\* register_rule and returns nothing
Result_register_rule_by_uid(doc, checker_bundle_name, checker_id, rule_uid) ==
    LET splitted_uid == Split(rule_uid, ":")
    IN IF Len(splitted_uid) < 4 THEN Raise(RuntimeError, doc)
       ELSE LET o == Result_register_rule(doc, checker_bundle_name, checker_id,
                                          splitted_uid[1], splitted_uid[2],
                                          splitted_uid[3], splitted_uid[4])
            IN IF o.ok THEN Return(None, o.doc) ELSE o

----------------------------------------------------------------------------
(* Files.  An .xqar file is held as the element tree it contains: the      *)
(* attributes and children of CheckerResults, CheckerBundle, Checker,      *)
(* AddressedRule (ruleUID only) and Issue.  from_xml builds the models     *)
(* from it, running every field and model validator.                       *)

NoFile == [nofile |-> TRUE]

DEMO_REPORT_PATH == "tests/data/demo_checker_bundle.xqar"
MISSING_REPORT_PATH == "tests/data/missing.xqar"

\* test.com:qc:1.0.0:qwerty.qwerty of the tests, shortened to t.c:qc:1.0:q
DemoRuleUid == <<"t", ".", "c", ":", "q", "c", ":", "1", ".", "0", ":", "q">>

\* tests/data/demo_checker_bundle.xqar as the tests describe it: one bundle,
\* one checker, one issue with issueId 0 and level INFORMATION.  The file
\* loads, so the checker addresses the issue's rule and is not skipped.
DemoReport ==
    [version |-> "1.0.0",
     checker_bundles |-> <<
        [name |-> "DemoCheckerBundle", build_date |-> "", description |-> "",
         version |-> "", summary |-> "", params |-> <<>>,
         checkers |-> <<
            [checker_id |-> "exampleChecker",
             description |-> "This is a description",
             summary |-> "", status |-> COMPLETED, params |-> <<>>,
             addressed_rule |-> << [rule_uid |-> DemoRuleUid] >>,
             issues |-> << [issue_id |-> 0,
                            description |-> "This is an information from the demo usecase",
                            level |-> 3,
                            rule_uid |-> DemoRuleUid] >>,
             metadata |-> <<>>] >>] >>]

FileSystem(path) == IF path = DEMO_REPORT_PATH THEN DemoReport ELSE NoFile

AllOk(seq) == \A i \in 1..Len(seq) : seq[i].ok
Values(seq) == [i \in 1..Len(seq) |-> seq[i].value]

CheckerType_from_xml(x) ==
    LET rules == [i \in 1..Len(x.addressed_rule) |->
                      RuleType([rule_uid |-> x.addressed_rule[i].rule_uid])]
        issues == [i \in 1..Len(x.issues) |->
                       IssueType(x.issues[i].issue_id, x.issues[i].description,
                                 x.issues[i].level, x.issues[i].rule_uid)]
    IN IF ~(AllOk(rules) /\ AllOk(issues)) \/ x.status \notin StatusType \cup {None}
       THEN Invalid
       ELSE LET checker == [CheckerType(x.checker_id, x.description, x.summary)
                               EXCEPT !.status = x.status,
                                      !.params = x.params,
                                      !.addressed_rule = Values(rules),
                                      !.issues = Values(issues),
                                      !.metadata = x.metadata]
            IN IF CheckerType_model_validate(checker) THEN Valid(checker) ELSE Invalid

CheckerBundleType_from_xml(x) ==
    LET checkers == [i \in 1..Len(x.checkers) |-> CheckerType_from_xml(x.checkers[i])]
    IN IF ~AllOk(checkers) THEN Invalid
       ELSE Valid([CheckerBundleType(x.build_date, x.description, x.name,
                                     x.version, x.summary)
                      EXCEPT !.params = x.params, !.checkers = Values(checkers)])

CheckerResults_from_xml(x) ==
    LET bundles == [i \in 1..Len(x.checker_bundles) |->
                        CheckerBundleType_from_xml(x.checker_bundles[i])]
    IN IF ~AllOk(bundles) THEN Invalid
       ELSE Valid([CheckerResults(x.version) EXCEPT !.checker_bundles = Values(bundles)])

Result_load_from_file(doc, xml_file_path, override) ==
    IF doc # NoReport /\ ~override THEN Raise(RuntimeError, doc)
    ELSE LET xml_text == FileSystem(xml_file_path)
         IN IF xml_text = NoFile THEN Raise(FileNotFoundError, doc)
            ELSE LET parsed == CheckerResults_from_xml(xml_text)
                 IN IF parsed.ok THEN Return(None, parsed.value) ELSE Raise(ValidationError, doc)

----------------------------------------------------------------------------
(* configuration.py and models/config.py.  Param values are strings.       *)

\* config.CheckerType(checker_id=, min_level=, max_level=)
config_CheckerType(checker_id, min_level, max_level) ==
    [checker_id |-> checker_id, min_level |-> min_level, max_level |-> max_level,
     params |-> <<>>]

\* config.ReportModuleType(application=)
config_ReportModuleType(application) == [application |-> application, params |-> <<>>]

\* config.CheckerBundleType.model_construct(application=): no validator runs
config_CheckerBundleType_model_construct(application) ==
    [application |-> application, params |-> <<>>, checkers |-> <<>>]

\* CheckerBundleType.check_at_least_one_element
config_CheckerBundleType_check_at_least_one_element(m) ==
    ~(Len(m.params) + Len(m.checkers) < 1)

\* Config.model_construct(): no validator runs
Config_model_construct(params, reports, checker_bundles) ==
    [params |-> params, reports |-> reports, checker_bundles |-> checker_bundles]

\* Config.check_at_least_one_element
Config_check_at_least_one_element(m) ==
    ~(Len(m.params) + Len(m.reports) + Len(m.checker_bundles) < 1)

\* Config(params=, reports=, checker_bundles=)
Config(params, reports, checker_bundles) ==
    LET m == Config_model_construct(params, reports, checker_bundles)
    IN IF Config_check_at_least_one_element(m) THEN Valid(m) ELSE Invalid

\* Config.from_xml: the file is held as the element tree it contains; every
\* CheckerBundle and the Config itself pass their validator or the parse fails
Config_from_xml(x) ==
    IF \A i \in 1..Len(x.checker_bundles) :
           config_CheckerBundleType_check_at_least_one_element(x.checker_bundles[i])
    THEN Config(x.params, x.reports, x.checker_bundles)
    ELSE Invalid

\* An element of a Config file as the file holds it: its tag, its attributes
\* (name or application or checkerId, and value) and its children in the order
\* of the file.
XmlElement(tag, name, value, children) ==
    [tag |-> tag, name |-> name, value |-> value, children |-> children]

\* The children that stand before any child of another tag
search_leading(children, tag) ==
    LET stops == {i \in 1..Len(children) : children[i].tag # tag}
        n == IF stops = {} THEN Len(children)
             ELSE (CHOOSE i \in stops : \A j \in stops : i <= j) - 1
    IN SubSeq(children, 1, n)

\* search_mode="unordered": a list field takes every child that bears its tag,
\* wherever it stands among the others, in the order of the file
search_unordered(children, tag) ==
    LET F[i \in 0..Len(children)] ==
            IF i = 0 THEN <<>>
            ELSE IF children[i].tag = tag THEN Append(F[i - 1], children[i])
                 ELSE F[i - 1]
    IN F[Len(children)]

\* config.CheckerType.from_xml: params = element(tag="Param")
config_CheckerType_from_xml(e) ==
    LET found == search_unordered(e.children, "Param")
    IN [checker_id |-> e.name, min_level |-> 1, max_level |-> 3,
        params |-> [i \in 1..Len(found) |-> ParamType(found[i].name, found[i].value)]]

\* config.ReportModuleType.from_xml
config_ReportModuleType_from_xml(e) ==
    LET found == search_unordered(e.children, "Param")
    IN [application |-> e.name,
        params |-> [i \in 1..Len(found) |-> ParamType(found[i].name, found[i].value)]]

\* config.CheckerBundleType.from_xml before its validator: params =
\* element(tag="Param"), checkers = element(tag="Checker")
config_CheckerBundleType_from_xml(e) ==
    LET params == search_unordered(e.children, "Param")
        checkers == search_unordered(e.children, "Checker")
    IN [application |-> e.name,
        params |-> [i \in 1..Len(params) |-> ParamType(params[i].name, params[i].value)],
        checkers |-> [i \in 1..Len(checkers) |-> config_CheckerType_from_xml(checkers[i])]]

\* Config.from_xml of the children of a <Config> element: params =
\* element(tag="Param"), reports = element(tag="ReportModule"),
\* checker_bundles = element(tag="CheckerBundle"), then the validators
Config_from_xml_children(children) ==
    LET params == search_unordered(children, "Param")
        reports == search_unordered(children, "ReportModule")
        bundles == search_unordered(children, "CheckerBundle")
    IN Config_from_xml(
        [params |-> [i \in 1..Len(params) |-> ParamType(params[i].name, params[i].value)],
         reports |-> [i \in 1..Len(reports) |-> config_ReportModuleType_from_xml(reports[i])],
         checker_bundles |->
            [i \in 1..Len(bundles) |-> config_CheckerBundleType_from_xml(bundles[i])]])

DEMO_CONFIG_PATH == "tests/data/demo_checker_bundle_config.xml"
REPEATED_PARAM_CONFIG_PATH == "tests/data/repeated_param_config.xml"
MISSING_CONFIG_PATH == "tests/data/missing_config.xml"

\* tests/data/demo_checker_bundle_config.xml as the tests read it: a global
\* param, a bundle with a param and a checker with a param; and the report
\* module of the demo configuration.
DemoConfig ==
    [params |-> <<ParamType("XodrFile", "../stimuli/xodr_examples/three_connected_roads_with_steps.xodr")>>,
     reports |-> <<[application |-> "TextReport",
                    params |-> <<ParamType("strInputFile", "Result.xqar"),
                                 ParamType("strReportFile", "Report.txt")>>]>>,
     checker_bundles |-> <<
        [application |-> "DemoCheckerBundle",
         params |-> <<ParamType("strResultFile", "DemoCheckerBundle.xqar")>>,
         checkers |-> <<[checker_id |-> "exampleChecker", min_level |-> 1,
                         max_level |-> 3,
                         params |-> <<ParamType("testCheckerParam", "Foo")>>]>>]>>]

\* A file that names a param twice at every scope
RepeatedParamConfig ==
    [params |-> <<ParamType("p1", "v1"), ParamType("p1", "v2")>>,
     reports |-> <<[application |-> "TextReport",
                    params |-> <<ParamType("p1", "v2"), ParamType("p1", "v1")>>]>>,
     checker_bundles |-> <<
        [application |-> "TestCheckerBundle",
         params |-> <<ParamType("p1", "v2"), ParamType("p1", "v1")>>,
         checkers |-> <<[checker_id |-> "TestChecker", min_level |-> 1,
                         max_level |-> 3,
                         params |-> <<ParamType("p1", "v1"), ParamType("p1", "v2")>>]>>]>>]

ConfigFileSystem(path) ==
    CASE path = DEMO_CONFIG_PATH -> DemoConfig
      [] path = REPEATED_PARAM_CONFIG_PATH -> RepeatedParamConfig
      [] OTHER -> NoFile

Configuration_load_from_file_keeping(cfg, xml_file_path, override) ==
    IF cfg # NoConfig THEN (IF override THEN Return(None, cfg) ELSE Raise(RuntimeError, cfg))
    ELSE LET xml_text == ConfigFileSystem(xml_file_path)
         IN IF xml_text = NoFile THEN Raise(FileNotFoundError, cfg)
            ELSE LET parsed == Config_from_xml(xml_text)
                 IN IF parsed.ok THEN Return(None, parsed.value)
                    ELSE Raise(ValidationError, cfg)

Configuration_load_from_file(cfg, xml_file_path, override) ==
    IF cfg # NoConfig /\ ~override THEN Raise(RuntimeError, cfg)
    ELSE LET xml_text == ConfigFileSystem(xml_file_path)
         IN IF xml_text = NoFile THEN Raise(FileNotFoundError, cfg)
            ELSE LET parsed == Config_from_xml(xml_text)
                 IN IF parsed.ok THEN Return(None, parsed.value)
                    ELSE Raise(ValidationError, cfg)

\* Configuration.write_to_file: raises on no document, and else serialises the
\* document as it is, with no validation of it; the document is not changed.
Configuration_write_to_file(cfg, xml_output_file_path) ==
    IF cfg = NoConfig THEN Raise(RuntimeError, cfg) ELSE Return(None, cfg)

\* next((x for x in items if x.<attribute> == wanted), None): the index, 0 for None
Configuration_get_checker_bundle(cfg, checker_bundle_name) ==
    IF Len(cfg.checker_bundles) = 0 THEN 0
    ELSE FirstIndex([i \in 1..Len(cfg.checker_bundles) |->
                        cfg.checker_bundles[i].application = checker_bundle_name])

FindChecker(bundle, checker_id) ==
    FirstIndex([i \in 1..Len(bundle.checkers) |-> bundle.checkers[i].checker_id = checker_id])

\* the tail of a getter that takes the last param of that name
ParamValue_last(params, param_name) ==
    IF \E i \in 1..Len(params) : param_name = params[i].name
    THEN params[CHOOSE i \in 1..Len(params) :
                    /\ param_name = params[i].name
                    /\ \A j \in (i + 1)..Len(params) : param_name # params[j].name].value
    ELSE None

\* the tail of every getter: the value of the first param of that name, or None
ParamValue(params, param_name) ==
    LET param == FirstIndex([i \in 1..Len(params) |-> param_name = params[i].name])
    IN IF param = 0 THEN None ELSE params[param].value

\* A getter on self._configuration = None: len(None.params) raises
Configuration_get_config_param(cfg, param_name) ==
    IF cfg = NoConfig THEN Raise(AttributeError, cfg)
    ELSE IF Len(cfg.params) = 0 THEN Return(None, cfg)
    ELSE Return(ParamValue(cfg.params, param_name), cfg)

Configuration_get_checker_bundle_param(cfg, checker_bundle_name, param_name) ==
    IF cfg = NoConfig THEN Raise(AttributeError, cfg)
    ELSE LET bundle == Configuration_get_checker_bundle(cfg, checker_bundle_name)
         IN IF bundle = 0 THEN Return(None, cfg)
            ELSE IF Len(cfg.checker_bundles[bundle].params) = 0 THEN Return(None, cfg)
            ELSE Return(ParamValue(cfg.checker_bundles[bundle].params, param_name), cfg)

Configuration_get_checker_param(cfg, checker_bundle_name, checker_id, param_name) ==
    IF cfg = NoConfig THEN Raise(AttributeError, cfg)
    ELSE LET bundle == Configuration_get_checker_bundle(cfg, checker_bundle_name)
         IN IF bundle = 0 THEN Return(None, cfg)
            ELSE LET check == FindChecker(cfg.checker_bundles[bundle], checker_id)
                 IN IF check = 0 THEN Return(None, cfg)
                    ELSE IF Len(cfg.checker_bundles[bundle].checkers[check].params) = 0
                    THEN Return(None, cfg)
                    ELSE Return(ParamValue(cfg.checker_bundles[bundle].checkers[check].params,
                                           param_name), cfg)

Configuration_get_report_module_param(cfg, checker_bundle_name, param_name) ==
    IF cfg = NoConfig THEN Raise(AttributeError, cfg)
    ELSE IF Len(cfg.reports) = 0 THEN Return(None, cfg)
    ELSE LET report_module == FirstIndex([i \in 1..Len(cfg.reports) |->
                                   cfg.reports[i].application = checker_bundle_name])
         IN IF report_module = 0 THEN Return(None, cfg)
            ELSE IF Len(cfg.reports[report_module].params) = 0 THEN Return(None, cfg)
            ELSE Return(ParamValue(cfg.reports[report_module].params, param_name), cfg)

Configuration_register_checker_bundle(cfg, checker_bundle_name) ==
    LET checker_bundle == config_CheckerBundleType_model_construct(checker_bundle_name)
    IN IF cfg = NoConfig
       THEN Return(None, Config_model_construct(<<>>, <<>>, <<checker_bundle>>))
       ELSE Return(None, [cfg EXCEPT !.checker_bundles = Append(@, checker_bundle)])

\* register_checker that registers the bundle when it does not exist
Configuration_register_checker_creating(cfg, checker_bundle_name, checker_id, min_level, max_level) ==
    LET check == config_CheckerType(checker_id, min_level, max_level)
    IN IF cfg = NoConfig THEN Raise(RuntimeError, cfg)
       ELSE LET bundle == Configuration_get_checker_bundle(cfg, checker_bundle_name)
            IN IF bundle = 0
               THEN Return(None, [cfg EXCEPT !.checker_bundles =
                       Append(@, [config_CheckerBundleType_model_construct(checker_bundle_name)
                                     EXCEPT !.checkers = <<check>>])])
               ELSE Return(None, [cfg EXCEPT !.checker_bundles[bundle].checkers =
                                                 Append(@, check)])

Configuration_register_checker(cfg, checker_bundle_name, checker_id, min_level, max_level) ==
    LET check == config_CheckerType(checker_id, min_level, max_level)
    IN IF cfg = NoConfig THEN Raise(RuntimeError, cfg)
       ELSE LET bundle == Configuration_get_checker_bundle(cfg, checker_bundle_name)
            IN IF bundle = 0 THEN Raise(RuntimeError, cfg)
               ELSE Return(None, [cfg EXCEPT !.checker_bundles[bundle].checkers =
                                                 Append(@, check)])

Configuration_set_config_param(cfg, name, value) ==
    LET param == ParamType(name, value)
    IN IF cfg = NoConfig
       THEN LET m == Config(<<param>>, <<>>, <<>>)
            IN IF m.ok THEN Return(None, m.value) ELSE Raise(ValidationError, cfg)
       ELSE Return(None, [cfg EXCEPT !.params = Append(@, param)])

Configuration_set_checker_bundle_param(cfg, checker_bundle_name, name, value) ==
    LET param == ParamType(name, value)
    IN IF cfg = NoConfig THEN Raise(RuntimeError, cfg)
       ELSE LET bundle == FirstIndex([i \in 1..Len(cfg.checker_bundles) |->
                              cfg.checker_bundles[i].application = checker_bundle_name])
            IN IF bundle = 0 THEN Raise(RuntimeError, cfg)
               ELSE Return(None, [cfg EXCEPT !.checker_bundles[bundle].params =
                                                 Append(@, param)])

\* set_checker_param that appends the param to the bundle's params
Configuration_set_checker_param_on_bundle(cfg, checker_bundle_name, checker_id, name, value) ==
    LET param == ParamType(name, value)
    IN IF cfg = NoConfig THEN Raise(RuntimeError, cfg)
       ELSE LET bundle == FirstIndex([i \in 1..Len(cfg.checker_bundles) |->
                              cfg.checker_bundles[i].application = checker_bundle_name])
            IN IF bundle = 0 THEN Raise(RuntimeError, cfg)
               ELSE LET check == FindChecker(cfg.checker_bundles[bundle], checker_id)
                    IN IF check = 0 THEN Raise(RuntimeError, cfg)
                       ELSE Return(None, [cfg EXCEPT !.checker_bundles[bundle].params =
                                                         Append(@, param)])

Configuration_set_checker_param(cfg, checker_bundle_name, checker_id, name, value) ==
    LET param == ParamType(name, value)
    IN IF cfg = NoConfig THEN Raise(RuntimeError, cfg)
       ELSE LET bundle == FirstIndex([i \in 1..Len(cfg.checker_bundles) |->
                              cfg.checker_bundles[i].application = checker_bundle_name])
            IN IF bundle = 0 THEN Raise(RuntimeError, cfg)
               ELSE LET check == FindChecker(cfg.checker_bundles[bundle], checker_id)
                    IN IF check = 0 THEN Raise(RuntimeError, cfg)
                       ELSE Return(None,
                                [cfg EXCEPT !.checker_bundles[bundle].checkers[check].params =
                                                Append(@, param)])

----------------------------------------------------------------------------
(* Result.write_to_file(xml_output_file_path, generate_summary)            *)

CountStatus(checkers, statuses) ==
    Cardinality({c \in 1..Len(checkers) : checkers[c].status \in statuses})

\* The text _generate_checker_bundle_summary composes for a bundle: a checker
\* whose status is none of the three counts as one that does not contain status
GeneratedBundleSummary(bundle) ==
    ToString(Len(bundle.checkers)) \o " checker(s) are executed. "
    \o ToString(CountStatus(bundle.checkers, {COMPLETED})) \o " checker(s) are completed. "
    \o ToString(CountStatus(bundle.checkers, {SKIPPED})) \o " checker(s) are skipped. "
    \o ToString(CountStatus(bundle.checkers, {"error"}))
    \o " checker(s) have internal error and "
    \o ToString(Len(bundle.checkers)
                - CountStatus(bundle.checkers, {COMPLETED, SKIPPED, "error"}))
    \o " checker(s) do not contain status."

GeneratedCheckerSummary(checker) == ToString(Len(checker.issues)) \o " issue(s) are found."

generate_checker_bundle_summary(doc) ==
    [doc EXCEPT !.checker_bundles =
        [b \in 1..Len(@) |->
            [@[b] EXCEPT !.summary = AddSummary(@, GeneratedBundleSummary(doc.checker_bundles[b]))]]]

generate_checker_summary(doc) ==
    [doc EXCEPT !.checker_bundles =
        [b \in 1..Len(@) |->
            [@[b] EXCEPT !.checkers =
                [c \in 1..Len(@) |->
                    [@[c] EXCEPT !.summary =
                        AddSummary(@, GeneratedCheckerSummary(
                                          doc.checker_bundles[b].checkers[c]))]]]]]

\* The summaries are generated in the document itself, before it is
\* serialised; the call leaves them there.
Result_write_to_file(doc, xml_output_file_path, generate_summary) ==
    IF doc = NoReport THEN Raise(RuntimeError, doc)
    ELSE Return(None, IF generate_summary
                      THEN generate_checker_summary(generate_checker_bundle_summary(doc))
                      ELSE doc)

RECURSIVE SumSeq(_)
SumSeq(numbers) ==
    IF numbers = <<>> THEN 0 ELSE Head(numbers) + SumSeq(Tail(numbers))

RECURSIVE Concat(_)
Concat(seqs) == IF seqs = <<>> THEN <<>> ELSE Head(seqs) \o Concat(Tail(seqs))

----------------------------------------------------------------------------
(* Result.set_result_version and Result.get_result_version                 *)

\* The attributes of result.CheckerBundleType declared without a default
CheckerBundleType_required == {"build_date", "description", "name", "version", "summary"}

\* result.CheckerBundleType(**kw): validation raises when a required
\* attribute is not among the keyword arguments
CheckerBundleType_kw(kw) ==
    IF CheckerBundleType_required \subseteq DOMAIN kw
    THEN Valid(CheckerBundleType(kw.build_date, kw.description, kw.name,
                                 kw.version, kw.summary))
    ELSE Invalid

\* set_result_version: with no document it builds
\* result.CheckerBundleType(version=version) to assign it to _report_results
\* (self.version, an attribute of the Result that nothing reads, is set
\* before); with a document it assigns the version of the root.
Result_set_result_version(doc, version) ==
    IF doc = NoReport
    THEN LET m == CheckerBundleType_kw([version |-> version])
         IN IF m.ok THEN Return(None, m.value) ELSE Raise(ValidationError, doc)
    ELSE Return(None, [doc EXCEPT !.version = version])

\* get_result_version: self._report_results.version
Result_get_result_version(doc) ==
    IF doc = NoReport THEN Raise(AttributeError, doc) ELSE Return(doc.version, doc)

----------------------------------------------------------------------------
(* The queries of Result.  None of them assigns to the document.  Those    *)
(* that name a bundle start with _get_checker_bundle, which raises         *)
(* RuntimeError on no document and on no bundle of the name; those that    *)
(* walk the whole document read self._report_results.checker_bundles,      *)
(* which raises AttributeError on no document.                             *)

\* _get_checker_bundle then _get_checker.  Yields [ok, b, c].
ResolveChecker(doc, checker_bundle_name, checker_id) ==
    IF doc = NoReport THEN [ok |-> FALSE]
    ELSE LET b == get_checker_bundle_without_error(doc, checker_bundle_name)
         IN IF b = 0 THEN [ok |-> FALSE]
            ELSE LET c == get_checker_without_error(doc.checker_bundles[b], checker_id)
                 IN IF c = 0 THEN [ok |-> FALSE] ELSE [ok |-> TRUE, b |-> b, c |-> c]

\* Every checker of the document, bundle by bundle, in order
AllCheckers(doc) == Concat([b \in 1..Len(doc.checker_bundles) |-> doc.checker_bundles[b].checkers])

\* Every issue of the document, checker by checker, in order
AllIssues(doc) ==
    LET checkers == AllCheckers(doc)
    IN Concat([c \in 1..Len(checkers) |-> checkers[c].issues])

Result_get_checker_bundle_names(doc) ==
    IF doc = NoReport THEN Raise(AttributeError, doc)
    ELSE Return([b \in 1..Len(doc.checker_bundles) |-> doc.checker_bundles[b].name], doc)

\* The test of the bundle for None is never reached with None
Result_get_checker_ids(doc, checker_bundle_name) ==
    IF doc = NoReport THEN Raise(RuntimeError, doc)
    ELSE LET b == get_checker_bundle_without_error(doc, checker_bundle_name)
         IN IF b = 0 THEN Raise(RuntimeError, doc)
            ELSE Return([c \in 1..Len(doc.checker_bundles[b].checkers) |->
                            doc.checker_bundles[b].checkers[c].checker_id], doc)

Result_get_issue_ids(doc, checker_bundle_name, checker_id) ==
    LET t == ResolveChecker(doc, checker_bundle_name, checker_id)
    IN IF ~t.ok THEN Raise(RuntimeError, doc)
       ELSE LET issues == doc.checker_bundles[t.b].checkers[t.c].issues
            IN Return([i \in 1..Len(issues) |-> issues[i].issue_id], doc)

Result_get_checker_results(doc, checker_bundle_name) ==
    IF doc = NoReport THEN Raise(RuntimeError, doc)
    ELSE LET b == get_checker_bundle_without_error(doc, checker_bundle_name)
         IN IF b = 0 THEN Raise(RuntimeError, doc)
            ELSE Return(doc.checker_bundles[b].checkers, doc)

Result_get_checker_result(doc, checker_bundle_name, checker_id) ==
    LET t == ResolveChecker(doc, checker_bundle_name, checker_id)
    IN IF ~t.ok THEN Raise(RuntimeError, doc)
       ELSE Return(doc.checker_bundles[t.b].checkers[t.c], doc)

Result_get_issues(doc, checker_bundle_name, checker_id) ==
    LET t == ResolveChecker(doc, checker_bundle_name, checker_id)
    IN IF ~t.ok THEN Raise(RuntimeError, doc)
       ELSE Return(doc.checker_bundles[t.b].checkers[t.c].issues, doc)

Result_get_checker_issue_count(doc, checker_bundle_name, checker_id) ==
    LET t == ResolveChecker(doc, checker_bundle_name, checker_id)
    IN IF ~t.ok THEN Raise(RuntimeError, doc)
       ELSE Return(Len(doc.checker_bundles[t.b].checkers[t.c].issues), doc)

Result_get_checker_bundle_issue_count(doc, checker_bundle_name) ==
    IF doc = NoReport THEN Raise(RuntimeError, doc)
    ELSE LET b == get_checker_bundle_without_error(doc, checker_bundle_name)
         IN IF b = 0 THEN Raise(RuntimeError, doc)
            ELSE Return(SumSeq([c \in 1..Len(doc.checker_bundles[b].checkers) |->
                                   Len(doc.checker_bundles[b].checkers[c].issues)]), doc)

\* The sum, over the names get_checker_bundle_names yields, of
\* get_checker_bundle_issue_count(name): a name counts the first bundle that
\* bears it
Result_get_issue_count(doc) ==
    LET names == Result_get_checker_bundle_names(doc)
    IN IF ~names.ok THEN Raise(AttributeError, doc)
       ELSE Return(SumSeq([n \in 1..Len(names.ret) |->
                              Result_get_checker_bundle_issue_count(doc, names.ret[n]).ret]),
                   doc)

Result_get_param_from_checker_bundle(doc, checker_bundle_name, param_name) ==
    IF doc = NoReport THEN Raise(RuntimeError, doc)
    ELSE LET b == get_checker_bundle_without_error(doc, checker_bundle_name)
         IN IF b = 0 THEN Raise(RuntimeError, doc)
            ELSE IF Len(doc.checker_bundles[b].params) = 0 THEN Return(None, doc)
            ELSE Return(ParamValue(doc.checker_bundles[b].params, param_name), doc)

Result_get_param_from_checker(doc, checker_bundle_name, checker_id, param_name) ==
    LET t == ResolveChecker(doc, checker_bundle_name, checker_id)
    IN IF ~t.ok THEN Raise(RuntimeError, doc)
       ELSE IF Len(doc.checker_bundles[t.b].checkers[t.c].params) = 0 THEN Return(None, doc)
       ELSE Return(ParamValue(doc.checker_bundles[t.b].checkers[t.c].params, param_name),
                   doc)

\* The issues of the first checker only
Result_get_issues_by_rule_uid_first_checker(doc, rule_uid) ==
    IF doc = NoReport THEN Raise(AttributeError, doc)
    ELSE LET has_uid(issue) == issue.rule_uid = rule_uid
             checkers == AllCheckers(doc)
         IN Return(IF checkers = <<>> THEN <<>> ELSE SelectSeq(checkers[1].issues, has_uid),
                   doc)

Result_get_issues_by_rule_uid(doc, rule_uid) ==
    IF doc = NoReport THEN Raise(AttributeError, doc)
    ELSE LET has_uid(issue) == issue.rule_uid = rule_uid
         IN Return(SelectSeq(AllIssues(doc), has_uid), doc)

Result_has_issue_in_rules(doc, rule_uid_set) ==
    IF doc = NoReport THEN Raise(AttributeError, doc)
    ELSE LET issues == AllIssues(doc)
         IN Return(\E i \in 1..Len(issues) : issues[i].rule_uid \in rule_uid_set, doc)

Result_has_issue_in_checkers(doc, check_id_set) ==
    IF doc = NoReport THEN Raise(AttributeError, doc)
    ELSE LET checkers == AllCheckers(doc)
         IN Return(\E c \in 1..Len(checkers) :
                       /\ checkers[c].checker_id \in check_id_set
                       /\ Len(checkers[c].issues) > 0,
                   doc)

\* checker_id_map[id] starts False for every id of the set and is set True by
\* any checker of that id that is COMPLETED and has no issue; the result is
\* the conjunction of the values of the map
Result_all_checkers_completed_without_issue(doc, check_id_set) ==
    IF doc = NoReport THEN Raise(AttributeError, doc)
    ELSE LET checkers == AllCheckers(doc)
             checker_id_map ==
                 [id \in check_id_set |->
                     \E c \in 1..Len(checkers) :
                         /\ checkers[c].checker_id = id
                         /\ checkers[c].status = COMPLETED
                         /\ Len(checkers[c].issues) = 0]
         IN Return(\A id \in check_id_set : checker_id_map[id], doc)

\* The status of the first checker of the id in the document, None for none
Result_get_checker_status(doc, checker_id) ==
    IF doc = NoReport THEN Raise(AttributeError, doc)
    ELSE LET checkers == AllCheckers(doc)
             c == FirstIndex([k \in 1..Len(checkers) |-> checkers[k].checker_id = checker_id])
         IN Return(IF c = 0 THEN None ELSE checkers[c].status, doc)

Result_all_checkers_completed(doc) ==
    IF doc = NoReport THEN Raise(AttributeError, doc)
    ELSE LET checkers == AllCheckers(doc)
         IN Return(\A c \in 1..Len(checkers) : checkers[c].status = COMPLETED, doc)

----------------------------------------------------------------------------
(* Result.copy_param_from_config(config)                                   *)

\* params[param.name] = param.value over the global params, then .items():
\* one item per name, in the order the names first occur, with the value of
\* the last param of that name.
DictItems(params) ==
    LET first(i) == \A j \in 1..(i - 1) : params[j].name # params[i].name
        last_of(n) == CHOOSE i \in 1..Len(params) :
                          /\ params[i].name = n
                          /\ \A j \in (i + 1)..Len(params) : params[j].name # n
        keys == SelectSeq([i \in 1..Len(params) |-> i], first)
    IN [k \in 1..Len(keys) |->
           [name |-> params[keys[k]].name,
            value |-> params[last_of(params[keys[k]].name)].value]]

\* A list of the params as they stand, one item per param
Configuration_get_all_global_config_param_all_items(cfg) ==
    IF cfg = NoConfig THEN Raise(AttributeError, cfg)
    ELSE Return([i \in 1..Len(cfg.params) |-> cfg.params[i]], cfg)

Configuration_get_all_global_config_param(cfg) ==
    IF cfg = NoConfig THEN Raise(AttributeError, cfg)
    ELSE Return(DictItems(cfg.params), cfg)

\* [ParamType(name=param.name, value=param.value) for param in params]
CopiedParams(params) == [i \in 1..Len(params) |-> ParamType(params[i].name, params[i].value)]

\* The first loop: every item of the dict is appended to every bundle
CopyGlobalParams(doc, items) ==
    [doc EXCEPT !.checker_bundles =
        [b \in 1..Len(@) |-> [@[b] EXCEPT !.params = @ \o CopiedParams(items)]]]

\* The loop over config_bundle.checkers, putting the params of the
\* Configuration in the place of those the checker holds
RECURSIVE CopyCheckerParams_replacing(_, _, _)
CopyCheckerParams_replacing(doc, b, config_checkers) ==
    IF config_checkers = <<>> THEN doc
    ELSE LET config_checker == Head(config_checkers)
             c == get_checker_without_error(doc.checker_bundles[b],
                                            config_checker.checker_id)
         IN CopyCheckerParams_replacing(
                IF c = 0 THEN doc
                ELSE [doc EXCEPT !.checker_bundles[b].checkers[c].params =
                                     CopiedParams(config_checker.params)],
                b, Tail(config_checkers))

\* The loop over config_bundle.checkers: a checker the Result bundle lacks
\* is skipped
RECURSIVE CopyCheckerParams(_, _, _)
CopyCheckerParams(doc, b, config_checkers) ==
    IF config_checkers = <<>> THEN doc
    ELSE LET config_checker == Head(config_checkers)
             c == get_checker_without_error(doc.checker_bundles[b],
                                            config_checker.checker_id)
         IN CopyCheckerParams(
                IF c = 0 THEN doc
                ELSE [doc EXCEPT !.checker_bundles[b].checkers[c].params =
                                     @ \o CopiedParams(config_checker.params)],
                b, Tail(config_checkers))

\* The loop over config.get_all_checker_bundles(), appending the params of
\* every Configuration bundle to every bundle of the Result
RECURSIVE CopyBundleParams_every(_, _)
CopyBundleParams_every(doc, config_bundles) ==
    IF config_bundles = <<>> THEN doc
    ELSE CopyBundleParams_every(CopyGlobalParams(doc, Head(config_bundles).params),
                                Tail(config_bundles))

\* The loop over config.get_all_checker_bundles(): a bundle the Result lacks
\* is skipped
RECURSIVE CopyBundleParams(_, _)
CopyBundleParams(doc, config_bundles) ==
    IF config_bundles = <<>> THEN doc
    ELSE LET config_bundle == Head(config_bundles)
             b == get_checker_bundle_without_error(doc, config_bundle.application)
         IN CopyBundleParams(
                IF b = 0 THEN doc
                ELSE CopyCheckerParams(
                         [doc EXCEPT !.checker_bundles[b].params =
                                         @ \o CopiedParams(config_bundle.params)],
                         b, config_bundle.checkers),
                Tail(config_bundles))

\* As copy_param_from_config, with the raising lookups in place of the
\* lookups that yield None
Result_copy_param_from_config_strict(doc, cfg) ==
    IF cfg = NoConfig THEN Raise(AttributeError, doc)
    ELSE IF doc = NoReport THEN Raise(RuntimeError, doc)
    ELSE IF \E i \in 1..Len(cfg.checker_bundles) :
                \/ get_checker_bundle_without_error(doc, cfg.checker_bundles[i].application) = 0
                \/ \E k \in 1..Len(cfg.checker_bundles[i].checkers) :
                       get_checker_without_error(
                           doc.checker_bundles[get_checker_bundle_without_error(
                                                   doc, cfg.checker_bundles[i].application)],
                           cfg.checker_bundles[i].checkers[k].checker_id) = 0
    THEN Raise(RuntimeError, doc)
    ELSE Return(None, CopyBundleParams(CopyGlobalParams(doc, DictItems(cfg.params)),
                                       cfg.checker_bundles))

\* config.get_all_global_config_param() reads an attribute of None when the
\* Configuration holds no document; self._report_results.checker_bundles
\* does when the Result holds none and the dict has an item, and with an
\* empty dict the first bundle lookup raises "Report not initialized".
Result_copy_param_from_config(doc, cfg) ==
    LET global == Configuration_get_all_global_config_param(cfg)
    IN IF ~global.ok THEN Raise(AttributeError, doc)
       ELSE IF doc = NoReport
       THEN (IF global.ret # <<>> THEN Raise(AttributeError, doc)
             ELSE IF cfg.checker_bundles # <<>> THEN Raise(RuntimeError, doc)
             ELSE Return(None, doc))
       ELSE Return(None, CopyBundleParams(CopyGlobalParams(doc, global.ret),
                                          cfg.checker_bundles))

----------------------------------------------------------------------------
(* Arguments the callers pass *)

BundleNames == {"DemoCheckerBundle", "TestBundle"}
CheckerIds == {"exampleChecker", "TestChecker"}
\* the checker the issue and status calls name
IssueCheckerIds == {"exampleChecker"}
\* the checker the param calls name
ParamCheckerIds == {"TestChecker"}
Descriptions == {"Issue found at odr"}
\* 0 is no IssueSeverity
Levels == {0, 3}
EmanatingEntities == {<<"t", ".", "c">>}
Standards == {<<"q", "c">>}
DefinitionSettings == {<<"1", ".", "0">>}
RuleFullNames == {<<"q">>}
OtherRuleUid == <<"t", ".", "c", ":", "q", "c", ":", "1", ".", "0", ":", "w">>
\* three parts only
MalformedRuleUid == <<"t", ".", "c", ":", "q", "c", ":", "q">>
WellFormedRuleUids == {DemoRuleUid, OtherRuleUid}
IssueRuleUids == WellFormedRuleUids \cup {MalformedRuleUid}
StatusInputs == {COMPLETED, SKIPPED}
ParamNames == {"p1"}
ParamValues == {1, 2}
ReportPaths == {DEMO_REPORT_PATH, MISSING_REPORT_PATH}

ConfigPaths == {DEMO_CONFIG_PATH, REPEATED_PARAM_CONFIG_PATH, MISSING_CONFIG_PATH}
\* the Result of the copy: a bundle and a checker the Configuration names too,
\* and a checker that it does not
ReportOutputPaths == {"tests/result_test_output.xqar"}
ManualSummaries == {"Tested example checkers."}
\* the bundle of the demo report, which a Result can register as well
SummaryBundleNames == {"DemoCheckerBundle"}
CopyBundleNames == {"DemoCheckerBundle"}
CopyCheckerIds == {"TestChecker", "exampleChecker"}
ConfigOutputPaths == {"tests/config_test_output.xml"}
ConfigBundleNames == {"TestCheckerBundle", "DemoCheckerBundle"}
ReportModuleNames == {"TextReport", "TestCheckerBundle"}
ConfigCheckerIds == {"TestChecker"}
ConfigParamNames == {"p1"}
ConfigParamValues == {"v1", "v2"}
\* the names the getters ask for: one the setters use, one only the demo file has
ConfigGetNames == {"p1", "XodrFile"}
ConfigGetCheckerIds == {"TestChecker", "exampleChecker"}

\* Children of a <CheckerBundle> element: none (the bundle is refused), a
\* checker, a param before a checker, and a param between two checkers
BundleChildrenInputs ==
    {<<>>,
     <<XmlElement("Checker", "exampleChecker", None, <<>>)>>,
     <<XmlElement("Param", "strResultFile", "DemoCheckerBundle.xqar", <<>>),
       XmlElement("Checker", "exampleChecker", None, <<>>)>>,
     <<XmlElement("Checker", "exampleChecker", None, <<>>),
       XmlElement("Param", "strResultFile", "DemoCheckerBundle.xqar", <<>>),
       XmlElement("Checker", "TestChecker", None,
                  <<XmlElement("Param", "testCheckerParam", "Foo", <<>>)>>)>>}
\* Children of a <Config> element
ConfigChildInputs ==
    {XmlElement("Param", "XodrFile", "a.xodr", <<>>),
     XmlElement("Param", "XoscFile", "a.xosc", <<>>),
     XmlElement("ReportModule", "TextReport", None,
                <<XmlElement("Param", "strReportFile", "Report.txt", <<>>)>>)}
    \cup {XmlElement("CheckerBundle", "DemoCheckerBundle", None, c) :
            c \in BundleChildrenInputs}

\* the default version of a report and another one
ResultVersions == {DEFAULT_REPORT_VERSION, "2.0.0"}
IntArg(n) == [int |-> n]
StrArg(x) == [str |-> x]
ListArg(l) == [list |-> l]

\* register_rule fields: the first of each matches its pattern, the last does not
RuleEntities == {<<"t", ".", "c">>, <<"t">>}
RuleStandards == {<<"q", "c">>, <<"Q">>}
RuleSettings == {<<"1", ".", "0">>, <<"1">>}
RuleNames == {<<"q">>, <<"q", ".", "w">>, <<"1">>}
\* five parts, the first four as in DemoRuleUid
FivePartRuleUid == DemoRuleUid \o <<":", "x">>
\* four parts, the first without a dot
BadEntityRuleUid == <<"t", ":", "q", "c", ":", "1", ".", "0", ":", "q">>
RuleUidInputs == {DemoRuleUid, MalformedRuleUid, FivePartRuleUid, BadEntityRuleUid, <<>>}
IssueIdInputs == {0, 1}
Rows == {IntArg(1), StrArg("x")}
Columns == {IntArg(1)}
XPaths == {StrArg("/a"), ListArg(<<StrArg("/a"), StrArg("/b")>>), ListArg(<<>>)}
Coordinates == {IntArg(0)}
InfoNames == {"info"}
\* the caller's lxml elements
ElementIds == {"e1", "e2"}
CallerElement(e) == etree_Element(e, IF e = "e1" THEN "TestCustomTag" ELSE "OtherTag")
XmlInfos == {<<CallerElement("e1")>>}
\* one element, the same one twice, and two
XmlInfoInputs ==
    {<<CallerElement("e1")>>, <<CallerElement("e1"), CallerElement("e1")>>,
     <<CallerElement("e2"), CallerElement("e1")>>}
InfoNameInputs == {"TestSpecificInfo", "DebugInfo"}
SummaryContents == {"s"}

----------------------------------------------------------------------------
(* The state machine *)

Init ==
    /\ report = [r \in Instances |-> NoReport]
    /\ id_manager = [r \in Instances |-> <<>>]
    /\ class_id = IDManager_id
    /\ last = [inst |-> None, op |-> "init", ok |-> TRUE, ret |-> None, err |-> None]
    /\ hist = [r \in Instances |->
                  [calls |-> 0, has_ok |-> FALSE, last_ok |-> 0, failed |-> 0]]
    /\ configuration = NoConfig
    /\ etree = [e \in ElementIds |-> None]

\* A call of op on instance r with outcome o that does not touch the id manager
Call(r, op, outcome) ==
    \E o \in {outcome} :
        /\ report' = [report EXCEPT ![r] = o.doc]
        /\ last' = [inst |-> r, op |-> op, ok |-> o.ok, ret |-> o.ret, err |-> o.err]
        /\ UNCHANGED <<id_manager, class_id, hist, configuration, etree>>

RulesBounded(doc) ==
    doc # NoReport =>
        \A b \in 1..Len(doc.checker_bundles) :
            \A c \in 1..Len(doc.checker_bundles[b].checkers) :
                Len(doc.checker_bundles[b].checkers[c].addressed_rule) <= MaxRules

get_checker_bundle_names(r) ==
    Call(r, "get_checker_bundle_names", Result_get_checker_bundle_names(report[r]))

get_checker_ids(r, checker_bundle_name) ==
    Call(r, "get_checker_ids", Result_get_checker_ids(report[r], checker_bundle_name))

get_issue_ids(r, checker_bundle_name, checker_id) ==
    Call(r, "get_issue_ids", Result_get_issue_ids(report[r], checker_bundle_name, checker_id))

get_checker_results(r, checker_bundle_name) ==
    Call(r, "get_checker_results", Result_get_checker_results(report[r], checker_bundle_name))

get_checker_result(r, checker_bundle_name, checker_id) ==
    Call(r, "get_checker_result", Result_get_checker_result(report[r], checker_bundle_name, checker_id))

get_issues(r, checker_bundle_name, checker_id) ==
    Call(r, "get_issues", Result_get_issues(report[r], checker_bundle_name, checker_id))

get_checker_issue_count(r, checker_bundle_name, checker_id) ==
    Call(r, "get_checker_issue_count", Result_get_checker_issue_count(report[r], checker_bundle_name, checker_id))

get_checker_bundle_issue_count(r, checker_bundle_name) ==
    Call(r, "get_checker_bundle_issue_count", Result_get_checker_bundle_issue_count(report[r], checker_bundle_name))

get_issue_count(r) ==
    Call(r, "get_issue_count", Result_get_issue_count(report[r]))

get_param_from_checker_bundle(r, checker_bundle_name, param_name) ==
    Call(r, "get_param_from_checker_bundle", Result_get_param_from_checker_bundle(report[r], checker_bundle_name, param_name))

get_param_from_checker(r, checker_bundle_name, checker_id, param_name) ==
    Call(r, "get_param_from_checker", Result_get_param_from_checker(report[r], checker_bundle_name, checker_id, param_name))

get_issues_by_rule_uid(r, rule_uid) ==
    Call(r, "get_issues_by_rule_uid", Result_get_issues_by_rule_uid(report[r], rule_uid))

has_issue_in_rules(r, rule_uid_set) ==
    Call(r, "has_issue_in_rules", Result_has_issue_in_rules(report[r], rule_uid_set))

has_issue_in_checkers(r, check_id_set) ==
    Call(r, "has_issue_in_checkers", Result_has_issue_in_checkers(report[r], check_id_set))

all_checkers_completed_without_issue(r, check_id_set) ==
    Call(r, "all_checkers_completed_without_issue", Result_all_checkers_completed_without_issue(report[r], check_id_set))

get_checker_status(r, checker_id) ==
    Call(r, "get_checker_status", Result_get_checker_status(report[r], checker_id))

all_checkers_completed(r) ==
    Call(r, "all_checkers_completed", Result_all_checkers_completed(report[r]))

set_result_version(r, version) ==
    Call(r, "set_result_version", Result_set_result_version(report[r], version))

get_result_version(r) ==
    Call(r, "get_result_version", Result_get_result_version(report[r]))

write_to_file(r, xml_output_file_path, generate_summary) ==
    Call(r, "write_to_file",
         Result_write_to_file(report[r], xml_output_file_path, generate_summary))

copy_param_from_config(r) ==
    Call(r, "copy_param_from_config",
         Result_copy_param_from_config(report[r], configuration))

load_from_file(r, xml_file_path, override) ==
    Call(r, "load_from_file",
         Result_load_from_file(report[r], xml_file_path, override))

register_checker_bundle(r, name) ==
    Call(r, "register_checker_bundle",
         Result_register_checker_bundle(report[r], "Example checker bundle", name,
                                        "0.0.1", "2024-05-31", ""))

register_checker(r, checker_bundle_name, checker_id) ==
    Call(r, "register_checker",
         Result_register_checker(report[r], checker_bundle_name, checker_id,
                                 "Test checker", ""))

register_rule(r, checker_bundle_name, checker_id, emanating_entity, standard, definition_setting, rule_full_name) ==
    Call(r, "register_rule",
         Result_register_rule(report[r], checker_bundle_name, checker_id,
                              emanating_entity, standard, definition_setting,
                              rule_full_name))

register_issue(r, checker_bundle_name, checker_id, description, level, rule_uid) ==
    \E o \in {Result_register_issue(report[r], id_manager[r], class_id,
                                    checker_bundle_name, checker_id, description,
                                    level, rule_uid)} :
       /\ id_manager' = [id_manager EXCEPT ![r] = o.self]
       /\ class_id' = o.cls
       /\ report' = [report EXCEPT ![r] = o.doc]
       /\ last' = [inst |-> r, op |-> "register_issue", ok |-> o.ok, ret |-> o.ret,
                   err |-> o.err]
       /\ hist' = [hist EXCEPT ![r] =
                      [calls |-> @.calls + 1,
                       has_ok |-> @.has_ok \/ o.ok,
                       last_ok |-> IF o.ok THEN o.ret ELSE @.last_ok,
                       failed |-> IF o.ok THEN 0 ELSE @.failed + 1]]
       /\ UNCHANGED <<configuration, etree>>

set_checker_status(r, checker_bundle_name, checker_id, status) ==
    Call(r, "set_checker_status",
         Result_set_checker_status(report[r], checker_bundle_name, checker_id, status))

add_param_to_checker_bundle(r, checker_bundle_name, name, value) ==
    Call(r, "add_param_to_checker_bundle",
         Result_add_param_to_checker_bundle(report[r], checker_bundle_name, name, value))

add_param_to_checker(r, checker_bundle_name, checker_id, name, value) ==
    Call(r, "add_param_to_checker",
         Result_add_param_to_checker(report[r], checker_bundle_name, checker_id,
                                     name, value))

register_rule_by_uid(r, checker_bundle_name, checker_id, rule_uid) ==
    Call(r, "register_rule_by_uid",
         Result_register_rule_by_uid(report[r], checker_bundle_name, checker_id, rule_uid))

add_file_location(r, checker_bundle_name, checker_id, issue_id, row, column, description) ==
    Call(r, "add_file_location",
         Result_add_file_location(report[r], checker_bundle_name, checker_id,
                                  issue_id, row, column, description))

add_xml_location(r, checker_bundle_name, checker_id, issue_id, xpath, description) ==
    Call(r, "add_xml_location",
         Result_add_xml_location(report[r], checker_bundle_name, checker_id,
                                 issue_id, xpath, description))

add_inertial_location(r, checker_bundle_name, checker_id, issue_id, x, y, z, description) ==
    Call(r, "add_inertial_location",
         Result_add_inertial_location(report[r], checker_bundle_name, checker_id,
                                      issue_id, x, y, z, description))

add_domain_specific_info(r, checker_bundle_name, checker_id, issue_id, domain_specific_info_name, xml_info) ==
    \E o \in {Result_add_domain_specific_info(report[r], checker_bundle_name, checker_id,
                                             issue_id, domain_specific_info_name,
                                             xml_info)} :
        /\ report' = [report EXCEPT ![r] = o.doc]
        /\ last' = [inst |-> r, op |-> "add_domain_specific_info", ok |-> o.ok,
                    ret |-> o.ret, err |-> o.err]
        /\ etree' = IF o.ok THEN etree_after_add(etree, xml_info) ELSE etree
        /\ UNCHANGED <<id_manager, class_id, hist, configuration>>

get_domain_specific_info(r, checker_bundle_name, checker_id, issue_id) ==
    Call(r, "get_domain_specific_info",
         Result_get_domain_specific_info(report[r], checker_bundle_name, checker_id,
                                         issue_id))

add_checker_bundle_summary(r, checker_bundle_name, content) ==
    Call(r, "add_checker_bundle_summary",
         Result_add_checker_bundle_summary(report[r], checker_bundle_name, content))

add_checker_summary(r, checker_bundle_name, checker_id, content) ==
    Call(r, "add_checker_summary",
         Result_add_checker_summary(report[r], checker_bundle_name, checker_id, content))

\* RuleType(emanating_entity=, standard=, definition_setting=, rule_full_name=)
\* and then RuleType(rule_uid=) of the uid the first composed; the outcome
\* holds the fields given and the rule parsed.
RuleType_round_trip(emanating_entity, standard, definition_setting, rule_full_name) ==
    \E composed \in {RuleType([emanating_entity |-> emanating_entity,
                              standard |-> standard,
                              definition_setting |-> definition_setting,
                              rule_full_name |-> rule_full_name])} :
        \E parsed \in {IF composed.ok
                       THEN RuleType([rule_uid |-> composed.value.rule_uid])
                       ELSE Invalid} :
            /\ last' = [inst |-> None, op |-> "RuleType", ok |-> parsed.ok,
                        ret |-> [fields |-> <<emanating_entity, standard,
                                              definition_setting, rule_full_name>>,
                                 rule |-> IF parsed.ok THEN parsed.value
                                          ELSE [none |-> TRUE]],
                        err |-> IF parsed.ok THEN None ELSE ValidationError]
            /\ UNCHANGED <<report, id_manager, class_id, hist, configuration, etree>>

\* A call of op on the Configuration with outcome o
\* seq read from its last element to its first
Reversed(seq) == [i \in 1..Len(seq) |-> seq[Len(seq) + 1 - i]]

\* The children of a file in another order: place i holds the child that stood
\* at perm[i], and when inner is set the children of every child are reversed
Rearranged(children, perm, inner) ==
    [i \in 1..Len(children) |->
        IF inner
        THEN [children[perm[i]] EXCEPT !.children = Reversed(@)]
        ELSE children[perm[i]]]

\* Config.from_xml of two files, the second holding the children of the first
\* in another order; the outcome holds the two files and the two parses.
Config_from_xml_two_orders ==
    /\ last.op = "files"
    /\ last' = [inst |-> None, op |-> "Config.from_xml", ok |-> TRUE,
                ret |-> [files |-> last.ret,
                         parsed |-> <<Config_from_xml_children(last.ret[1]),
                                      Config_from_xml_children(last.ret[2])>>],
                err |-> None]
    /\ UNCHANGED <<report, id_manager, class_id, hist, configuration, etree>>

ConfigCall(op, outcome) ==
    \E o \in {outcome} :
        /\ configuration' = o.doc
        /\ last' = [inst |-> "Configuration", op |-> op, ok |-> o.ok, ret |-> o.ret,
                    err |-> o.err]
        /\ UNCHANGED <<report, id_manager, class_id, hist, etree>>

config_load_from_file(xml_file_path, override) ==
    ConfigCall("Configuration.load_from_file",
               Configuration_load_from_file(configuration, xml_file_path, override))

config_write_to_file(xml_output_file_path) ==
    ConfigCall("Configuration.write_to_file",
               Configuration_write_to_file(configuration, xml_output_file_path))

config_register_checker_bundle(checker_bundle_name) ==
    ConfigCall("Configuration.register_checker_bundle",
               Configuration_register_checker_bundle(configuration, checker_bundle_name))

config_register_checker(checker_bundle_name, checker_id, min_level, max_level) ==
    ConfigCall("Configuration.register_checker",
               Configuration_register_checker(configuration, checker_bundle_name,
                                              checker_id, min_level, max_level))

set_config_param(name, value) ==
    ConfigCall("set_config_param", Configuration_set_config_param(configuration, name, value))

set_checker_bundle_param(checker_bundle_name, name, value) ==
    ConfigCall("set_checker_bundle_param",
               Configuration_set_checker_bundle_param(configuration, checker_bundle_name,
                                                      name, value))

set_checker_param(checker_bundle_name, checker_id, name, value) ==
    ConfigCall("set_checker_param",
               Configuration_set_checker_param(configuration, checker_bundle_name,
                                               checker_id, name, value))

get_config_param(param_name) ==
    ConfigCall("get_config_param", Configuration_get_config_param(configuration, param_name))

get_checker_bundle_param(checker_bundle_name, param_name) ==
    ConfigCall("get_checker_bundle_param",
               Configuration_get_checker_bundle_param(configuration, checker_bundle_name,
                                                      param_name))

get_checker_param(checker_bundle_name, checker_id, param_name) ==
    ConfigCall("get_checker_param",
               Configuration_get_checker_param(configuration, checker_bundle_name,
                                               checker_id, param_name))

get_report_module_param(checker_bundle_name, param_name) ==
    ConfigCall("get_report_module_param",
               Configuration_get_report_module_param(configuration, checker_bundle_name,
                                                     param_name))

----------------------------------------------------------------------------
(* Specifications.  Each bounds what the code leaves unbounded: the number *)
(* of register_issue calls and of rules a checker addresses.               *)

Loads(r) == \E p \in ReportPaths, o \in BOOLEAN : load_from_file(r, p, o)

RegistersBundle(r) == \E b \in BundleNames : register_checker_bundle(r, b)

RegistersChecker(r, ids) ==
    \E b \in BundleNames, c \in ids : register_checker(r, b, c)

RegistersRule(r) ==
    \E b \in BundleNames, c \in IssueCheckerIds, e \in EmanatingEntities,
       s \in Standards, d \in DefinitionSettings, n \in RuleFullNames :
        /\ register_rule(r, b, c, e, s, d, n)
        /\ RulesBounded(report'[r])

TwoBundle == "TestBundle"

RegistersIssue(r, bundles, levels, uids, max_calls) ==
    /\ hist[r].calls < max_calls
    /\ \E b \in bundles, c \in IssueCheckerIds, d \in Descriptions,
          l \in levels, u \in uids :
           register_issue(r, b, c, d, l, u)

SetsStatus(r) ==
    \E b \in BundleNames, c \in IssueCheckerIds, s \in StatusInputs :
        set_checker_status(r, b, c, s)

\* One Result that starts empty: bundles, checkers, rules and issues.
Next ==
    \/ RegistersBundle("A")
    \/ RegistersChecker("A", IssueCheckerIds)
    \/ RegistersRule("A")
    \/ RegistersIssue("A", BundleNames, Levels, IssueRuleUids, MaxIssueCalls)

Spec == Init /\ [][Next]_vars

\* One Result: the same, and loading files, with and without override.
NextLoad ==
    \/ Loads("A")
    \/ RegistersBundle("A")
    \/ RegistersChecker("A", IssueCheckerIds)
    \/ RegistersRule("A")
    \/ RegistersIssue("A", BundleNames, Levels, IssueRuleUids, MaxLoadIssueCalls)

SpecLoad == Init /\ [][NextLoad]_vars

\* One Result: bundles, checkers, rules, issues and checker status.
NextStatus ==
    \/ RegistersBundle("A")
    \/ RegistersChecker("A", IssueCheckerIds)
    \/ RegistersRule("A")
    \/ RegistersIssue("A", {TwoBundle}, Levels, WellFormedRuleUids,
                      MaxStatusIssueCalls)
    \/ SetsStatus("A")

SpecStatus == Init /\ [][NextStatus]_vars

\* One Result: bundles, checkers and params.
AddsBundleParam(r) ==
    \E b \in BundleNames, n \in ParamNames, v \in ParamValues :
        add_param_to_checker_bundle(r, b, n, v)

AddsCheckerParam(r) ==
    \E b \in BundleNames, c \in ParamCheckerIds, n \in ParamNames,
       v \in ParamValues :
        add_param_to_checker(r, b, c, n, v)

NextReg ==
    \/ RegistersBundle("A")
    \/ RegistersChecker("A", CheckerIds)
    \/ AddsBundleParam("A")
    \/ AddsCheckerParam("A")

SpecReg == Init /\ [][NextReg]_vars

\* Two Results in one process, calls interleaved in any order.

NextTwo ==
    \E r \in Instances :
        \/ register_checker_bundle(r, TwoBundle)
        \/ \E c \in IssueCheckerIds : register_checker(r, TwoBundle, c)
        \/ RegistersRule(r)
        \/ RegistersIssue(r, {TwoBundle}, Levels, {DemoRuleUid, MalformedRuleUid},
                          MaxTwoIssueCalls)

SpecTwo == Init /\ [][NextTwo]_vars

\* One Result: rules registered by fields and by uid, and the rule codec.
RegistersRuleFields(r) ==
    \E c \in IssueCheckerIds, e \in RuleEntities, x \in RuleStandards,
       d \in RuleSettings, n \in RuleNames :
        /\ register_rule(r, TwoBundle, c, e, x, d, n)
        /\ RulesBounded(report'[r])

RegistersRuleByUid(r) ==
    \E c \in IssueCheckerIds, u \in RuleUidInputs :
        /\ register_rule_by_uid(r, TwoBundle, c, u)
        /\ RulesBounded(report'[r])

RoundTrips ==
    \E e \in RuleEntities, x \in RuleStandards, d \in RuleSettings, n \in RuleNames :
        RuleType_round_trip(e, x, d, n)

NextRule ==
    \/ register_checker_bundle("A", TwoBundle)
    \/ \E c \in IssueCheckerIds : register_checker("A", TwoBundle, c)
    \/ RegistersRuleFields("A")
    \/ RegistersRuleByUid("A")
    \/ RoundTrips

SpecRule == Init /\ [][NextRule]_vars

\* One Result: every call that names a bundle, a checker or an issue, on
\* names that exist and names that do not.
IssueSize(issue) == Len(issue.locations) + Len(issue.domain_specific_info)

CheckerSize(checker) ==
    Len(checker.params) + Len(checker.summary) + Len(checker.addressed_rule)
    + Len(checker.issues) + (IF checker.status = None THEN 0 ELSE 1)
    + SumSeq([i \in 1..Len(checker.issues) |-> IssueSize(checker.issues[i])])

BundleSize(bundle) ==
    Len(bundle.params) + Len(bundle.summary)
    + SumSeq([c \in 1..Len(bundle.checkers) |-> CheckerSize(bundle.checkers[c])])

LocBounded(doc) ==
    doc # NoReport =>
        SumSeq([b \in 1..Len(doc.checker_bundles) |->
                   BundleSize(doc.checker_bundles[b])]) <= MaxLocSize

LocCallOn(r, bundles, checkers) ==
    \E b \in bundles, c \in checkers :
        \/ register_checker(r, b, c) /\ c \in IssueCheckerIds
        \/ \E e \in EmanatingEntities, x \in Standards, d \in DefinitionSettings,
              n \in RuleFullNames :
               register_rule(r, b, c, e, x, d, n)
        \/ /\ hist[r].calls < MaxLocIssueCalls
           /\ \E d \in Descriptions : register_issue(r, b, c, d, 3, DemoRuleUid)
        \/ set_checker_status(r, b, c, COMPLETED)
        \/ \E n \in ParamNames : add_param_to_checker_bundle(r, b, n, 1)
        \/ \E n \in ParamNames : add_param_to_checker(r, b, c, n, 1)
        \/ \E t \in SummaryContents : add_checker_bundle_summary(r, b, t)
        \/ \E t \in SummaryContents : add_checker_summary(r, b, c, t)
        \/ \E i \in IssueIdInputs, row \in Rows, column \in Columns, d \in Descriptions :
               add_file_location(r, b, c, i, row, column, d)
        \/ \E i \in IssueIdInputs, xpath \in XPaths, d \in Descriptions :
               add_xml_location(r, b, c, i, xpath, d)
        \/ \E i \in IssueIdInputs, x \in Coordinates, d \in Descriptions :
               add_inertial_location(r, b, c, i, x, x, x, d)
        \/ \E i \in IssueIdInputs, n \in InfoNames, x \in XmlInfos :
               add_domain_specific_info(r, b, c, i, n, x)

LocCall(r) == LocCallOn(r, BundleNames, CheckerIds)

NextLoc ==
    \/ register_checker_bundle("A", TwoBundle)
    \/ LocCall("A") /\ RulesBounded(report'["A"]) /\ LocBounded(report'["A"])

SpecLoc == Init /\ [][NextLoc]_vars

\* One Configuration: loads, registrations, setters and getters.
ConfigSize(cfg) ==
    IF cfg = NoConfig THEN 0
    ELSE Len(cfg.params) + Len(cfg.checker_bundles)
         + SumSeq([b \in 1..Len(cfg.checker_bundles) |->
                      Len(cfg.checker_bundles[b].params)
                      + Len(cfg.checker_bundles[b].checkers)
                      + SumSeq([c \in 1..Len(cfg.checker_bundles[b].checkers) |->
                                   Len(cfg.checker_bundles[b].checkers[c].params)])])

ConfigBounded == ConfigSize(configuration') <= MaxConfigSize

ConfigLoads == \E p \in ConfigPaths, o \in BOOLEAN : config_load_from_file(p, o)

ConfigRegisters ==
    \E b \in ConfigBundleNames :
        \/ config_register_checker_bundle(b) /\ ConfigBounded
        \/ \E c \in ConfigCheckerIds : config_register_checker(b, c, 1, 3) /\ ConfigBounded

ConfigSets ==
    \E n \in ConfigParamNames, v \in ConfigParamValues :
        \/ set_config_param(n, v) /\ ConfigBounded
        \/ \E b \in ConfigBundleNames :
               \/ set_checker_bundle_param(b, n, v) /\ ConfigBounded
               \/ \E c \in ConfigCheckerIds : set_checker_param(b, c, n, v) /\ ConfigBounded

ConfigGets ==
    \E n \in ConfigGetNames :
        \/ get_config_param(n)
        \/ \E b \in ConfigBundleNames :
               \/ get_checker_bundle_param(b, n)
               \/ \E c \in ConfigGetCheckerIds : get_checker_param(b, c, n)
        \/ \E m \in ReportModuleNames : get_report_module_param(m, n)

ConfigWrites == \E p \in ConfigOutputPaths : config_write_to_file(p)

NextConfig == ConfigLoads \/ ConfigRegisters \/ ConfigSets \/ ConfigGets \/ ConfigWrites

SpecConfig == Init /\ [][NextConfig]_vars

\* One Result: the version of the report, set and read before and after the
\* report holds a document that was registered or loaded.
SetsVersion(r) == \E v \in ResultVersions : set_result_version(r, v)

NextVersion ==
    \/ Loads("A")
    \/ RegistersBundle("A")
    \/ RegistersChecker("A", CheckerIds)
    \/ SetsVersion("A")
    \/ get_result_version("A")

SpecVersion == Init /\ [][NextVersion]_vars

\* One Result and the Configuration of the demo file: every call that
\* registers or adds something, on a document within the bound, and the copy
\* of the params of the Configuration into such a document.
NextAppend ==
    \/ config_load_from_file(DEMO_CONFIG_PATH, FALSE)
    \/ register_checker_bundle("A", "DemoCheckerBundle")
    \/ /\ LocCallOn("A", SummaryBundleNames, IssueCheckerIds)
       /\ RulesBounded(report'["A"])
       /\ LocBounded(report'["A"])
    \/ copy_param_from_config("A") /\ LocBounded(report["A"])
    \/ SetsVersion("A")

SpecAppend == Init /\ [][NextAppend]_vars

\* One Result: issues, and domain specific information added to them and
\* read back.
InfoCount(doc) ==
    IF doc = NoReport THEN 0
    ELSE SumSeq([i \in 1..Len(AllIssues(doc)) |->
                    Len(AllIssues(doc)[i].domain_specific_info)])

\* No checker addresses a rule twice (register_rule does not refuse a rule
\* that is registered)
RegisteredOnce(doc) ==
    doc # NoReport =>
        \A k \in 1..Len(AllCheckers(doc)) :
            \A i, j \in 1..Len(AllCheckers(doc)[k].addressed_rule) :
                AllCheckers(doc)[k].addressed_rule[i] = AllCheckers(doc)[k].addressed_rule[j]
                    => i = j

AddsInfo(r) ==
    \E c \in IssueCheckerIds, i \in IssueIdInputs, n \in InfoNameInputs,
       x \in XmlInfoInputs :
        /\ add_domain_specific_info(r, TwoBundle, c, i, n, x)
        /\ InfoCount(report'[r]) <= MaxInfos

GetsInfo(r) ==
    \E c \in IssueCheckerIds, i \in IssueIdInputs :
        get_domain_specific_info(r, TwoBundle, c, i)

NextInfo ==
    \/ register_checker_bundle("A", TwoBundle)
    \/ \E c \in IssueCheckerIds : register_checker("A", TwoBundle, c)
    \/ \E c \in IssueCheckerIds :
           /\ register_rule_by_uid("A", TwoBundle, c, DemoRuleUid)
           /\ RegisteredOnce(report'["A"])
    \/ RegistersIssue("A", {TwoBundle}, {3}, {DemoRuleUid}, MaxInfoIssueCalls)
    \/ AddsInfo("A")
    \/ GetsInfo("A")

SpecInfo == Init /\ [][NextInfo]_vars

\* Config files of at most MaxFileChildren children, each with a second file
\* that holds the same children in another order; both are parsed.
InitOrder ==
    /\ report = [r \in Instances |-> NoReport]
    /\ id_manager = [r \in Instances |-> <<>>]
    /\ class_id = IDManager_id
    /\ hist = [r \in Instances |->
                  [calls |-> 0, has_ok |-> FALSE, last_ok |-> 0, failed |-> 0]]
    /\ configuration = NoConfig
    /\ etree = [e \in ElementIds |-> None]
    /\ \E n \in 0..MaxFileChildren :
        \E children \in [1..n -> ConfigChildInputs] :
            \E perm \in Permutations(1..n), inner \in BOOLEAN :
                last = [inst |-> None, op |-> "files", ok |-> TRUE,
                        ret |-> <<children, Rearranged(children, perm, inner)>>,
                        err |-> None]

NextOrder == Config_from_xml_two_orders

SpecOrder == InitOrder /\ [][NextOrder]_vars

\* One Result and one Configuration, each loaded from files and registered into.
NextReload ==
    \/ Loads("A")
    \/ RegistersBundle("A")
    \/ ConfigLoads
    \/ \E b \in ConfigBundleNames : config_register_checker_bundle(b) /\ ConfigBounded
    \/ \E n \in ConfigParamNames, v \in ConfigParamValues :
           set_config_param(n, v) /\ ConfigBounded

SpecReload == Init /\ [][NextReload]_vars

\* One Result that is loaded, registered into and queried, with names that
\* exist and names that do not; the bundle registered holds a checker of the
\* id of the checker of the demo report
QueriesBundle(r) ==
    \E b \in BundleNames :
        \/ get_checker_ids(r, b)
        \/ get_checker_results(r, b)
        \/ get_checker_bundle_issue_count(r, b)
        \/ \E n \in ParamNames : get_param_from_checker_bundle(r, b, n)

QueriesChecker(r) ==
    \E b \in BundleNames, c \in CheckerIds :
        \/ get_issue_ids(r, b, c)
        \/ get_checker_result(r, b, c)
        \/ get_issues(r, b, c)
        \/ get_checker_issue_count(r, b, c)
        \/ \E n \in ParamNames : get_param_from_checker(r, b, c, n)

QueriesDocument(r) ==
    \/ get_checker_bundle_names(r)
    \/ get_issue_count(r)
    \/ all_checkers_completed(r)
    \/ \E u \in WellFormedRuleUids : get_issues_by_rule_uid(r, u)
    \/ \E us \in SUBSET WellFormedRuleUids : has_issue_in_rules(r, us)
    \/ \E c \in CheckerIds : get_checker_status(r, c)
    \/ \E cs \in SUBSET CheckerIds :
           \/ has_issue_in_checkers(r, cs)
           \/ all_checkers_completed_without_issue(r, cs)

NextQuery ==
    \/ Loads("A")
    \/ register_checker_bundle("A", TwoBundle)
    \/ RegistersChecker("A", IssueCheckerIds)
    \/ RegistersRule("A")
    \/ RegistersIssue("A", {TwoBundle}, {3}, WellFormedRuleUids, MaxQueryIssueCalls)
    \/ SetsStatus("A")
    \/ QueriesBundle("A")
    \/ QueriesChecker("A")
    \/ QueriesDocument("A")

SpecQuery == Init /\ [][NextQuery]_vars

\* One Result whose summaries are added to by hand and generated on writing
Occurrences(texts, summary) ==
    Cardinality({x \in texts \X (1..Len(summary)) :
                    /\ x[2] + Len(x[1]) - 1 <= Len(summary)
                    /\ SubSeq(summary, x[2], x[2] + Len(x[1]) - 1) = x[1]})

\* The texts a summary is made of: a generated text is counted by the words
\* its generator ends it with
SummaryTexts(summary) == Occurrences({"status.", "found."} \cup ManualSummaries, summary)

SummaryBounded(doc) ==
    doc # NoReport =>
        \A b \in 1..Len(doc.checker_bundles) :
            /\ SummaryTexts(doc.checker_bundles[b].summary) <= MaxSummaryTexts
            /\ \A c \in 1..Len(doc.checker_bundles[b].checkers) :
                   SummaryTexts(doc.checker_bundles[b].checkers[c].summary)
                       <= MaxSummaryTexts

AddsSummary(r) ==
    \E b \in SummaryBundleNames, s \in ManualSummaries :
        \/ add_checker_bundle_summary(r, b, s)
        \/ \E c \in IssueCheckerIds : add_checker_summary(r, b, c, s)

Writes(r) ==
    \E p \in ReportOutputPaths, g \in BOOLEAN : write_to_file(r, p, g)

NextSummary ==
    \/ Loads("A")
    \/ \E b \in SummaryBundleNames :
           \/ register_checker_bundle("A", b)
           \/ \E c \in IssueCheckerIds :
                  \/ register_checker("A", b, c)
                  \/ \E s \in StatusInputs : set_checker_status("A", b, c, s)
    \/ AddsSummary("A") /\ SummaryBounded(report'["A"])
    \/ Writes("A") /\ SummaryBounded(report'["A"])

SpecSummary == Init /\ [][NextSummary]_vars

\* A Result and a Configuration that name the same and different bundles and
\* checkers, and the copy of the params of the one into the other
CopySize(doc) ==
    IF doc = NoReport THEN 0
    ELSE Len(doc.checker_bundles)
         + SumSeq([b \in 1..Len(doc.checker_bundles) |->
                      Len(doc.checker_bundles[b].params)
                      + Len(doc.checker_bundles[b].checkers)
                      + SumSeq([c \in 1..Len(doc.checker_bundles[b].checkers) |->
                                   Len(doc.checker_bundles[b].checkers[c].params)])])

CopyBounded(r) == CopySize(report'[r]) <= MaxCopySize

CopyRegisters(r) ==
    \E b \in CopyBundleNames :
        \/ register_checker_bundle(r, b) /\ CopyBounded(r)
        \/ \E c \in CopyCheckerIds : register_checker(r, b, c) /\ CopyBounded(r)

CopyConfigures ==
    \/ \E b \in ConfigBundleNames :
           \/ config_register_checker_bundle(b) /\ ConfigBounded
           \/ \E c \in ConfigCheckerIds : config_register_checker(b, c, 1, 3) /\ ConfigBounded
    \/ \E n \in ConfigParamNames, v \in ConfigParamValues :
           \/ set_config_param(n, v) /\ ConfigBounded
           \/ \E b \in ConfigBundleNames :
                  \/ set_checker_bundle_param(b, n, v) /\ ConfigBounded
                  \/ \E c \in ConfigCheckerIds :
                         set_checker_param(b, c, n, v) /\ ConfigBounded

Copies(r) == copy_param_from_config(r) /\ CopyBounded(r)

NextCopy == CopyRegisters("A") \/ CopyConfigures \/ Copies("A")

SpecCopy == Init /\ [][NextCopy]_vars

----------------------------------------------------------------------------
(* What the properties below read off a document *)

\* The checkers of a document, as <<bundle index, checker index>>
CheckersOf(doc) ==
    IF doc = NoReport THEN {}
    ELSE UNION {{<<b, c>> : c \in 1..Len(doc.checker_bundles[b].checkers)} :
                    b \in 1..Len(doc.checker_bundles)}

CheckerAt(doc, bc) == doc.checker_bundles[bc[1]].checkers[bc[2]]

\* The issues of a document, as <<bundle index, checker index, issue index>>
IssuesOf(doc) ==
    UNION {{<<bc[1], bc[2], i>> : i \in 1..Len(CheckerAt(doc, bc).issues)} :
               bc \in CheckersOf(doc)}

IssueAt(doc, bci) == CheckerAt(doc, <<bci[1], bci[2]>>).issues[bci[3]]

IssueIds(doc) == {IssueAt(doc, p).issue_id : p \in IssuesOf(doc)}

AddressedRuleUids(checker) ==
    {checker.addressed_rule[i].rule_uid : i \in 1..Len(checker.addressed_rule)}

\* The checkers of the document that a bundle name and a checker id select
Named(doc, checker_bundle_name, checker_id) ==
    {bc \in CheckersOf(doc) :
        /\ bc[1] = get_checker_bundle_without_error(doc, checker_bundle_name)
        /\ bc[2] = get_checker_without_error(doc.checker_bundles[bc[1]], checker_id)}

HasBundle(doc, name) ==
    doc # NoReport /\ get_checker_bundle_without_error(doc, name) # 0

\* No file was ever loaded: the issue of the demo file is not in the document
NeverLoaded(doc) ==
    \A p \in IssuesOf(doc) : IssueAt(doc, p).description \in Descriptions

\* The step is a register_issue call on instance r
IssueStep(r) == hist'[r].calls = hist[r].calls + 1

----------------------------------------------------------------------------
(* Issue ids *)

\* C1: on one Result, the ids that successful register_issue calls return are
\* integers that strictly increase, whichever bundle and checker the calls
\* name; the first id allocated is 0, and two successful calls with no other
\* register_issue call in between return n and n+1.
C1_IssueIdsIncrease ==
    [][IssueStep("A") =>
          /\ hist["A"].calls = 0 => id_manager'["A"] = <<0>>
          /\ last'.ok =>
                /\ last'.ret \in Nat
                /\ hist["A"].calls = 0 => last'.ret = 0
                /\ hist["A"].has_ok => last'.ret > hist["A"].last_ok
                /\ (hist["A"].has_ok /\ hist["A"].failed = 0) =>
                       last'.ret = hist["A"].last_ok + 1]_vars

\* Three successful calls returned 0, 1 and 2, over checkers of two bundles.
C1_Witness ==
    /\ hist["A"].calls = 3
    /\ last.op = "register_issue" /\ last.ok /\ last.ret = 2
    /\ report["A"] # NoReport
    /\ NeverLoaded(report["A"])
    /\ IssueIds(report["A"]) = {0, 1, 2}
    /\ Cardinality(IssuesOf(report["A"])) = 3
    /\ Cardinality({p[1] : p \in IssuesOf(report["A"])}) = 2

\* C2: no two issues of the document carry the same issue_id, in any state
\* that load_from_file and the registrations reach.
C2_IssueIdsUnique ==
    \A p, q \in IssuesOf(report["A"]) :
        p # q => IssueAt(report["A"], p).issue_id # IssueAt(report["A"], q).issue_id

\* C3: a register_issue call that raises still consumes its id: every call,
\* raising or not, leaves the counter at the number of calls made before it,
\* a raising call returns nothing, and a successful call returns the last
\* successful id plus one plus the number of calls that raised in between.
C3_FailedCallConsumesId ==
    [][IssueStep("A") =>
          /\ id_manager'["A"] = <<hist["A"].calls>>
          /\ ~last'.ok => last'.ret = None
          /\ (last'.ok /\ hist["A"].has_ok) =>
                 last'.ret = hist["A"].last_ok + 1 + hist["A"].failed]_vars

\* Calls one and three succeeded with 0 and 2; call two raised and id 1 is
\* nowhere in the document.
C3_Witness ==
    /\ hist["A"].calls = 3
    /\ last.op = "register_issue" /\ last.ok /\ last.ret = 2
    /\ report["A"] # NoReport
    /\ NeverLoaded(report["A"])
    /\ IssueIds(report["A"]) = {0, 2}
    /\ Cardinality(IssuesOf(report["A"])) = 2

\* C4: two Results in one process count separately: the k-th register_issue
\* call on an instance allocates k-1 and, if it succeeds, returns k-1,
\* whatever was called on the other instance, whose counter and document the
\* call leaves alone; the class attribute stays at -1.
C4_CountersIndependent ==
    [][\A r \in Instances :
           IssueStep(r) =>
               /\ id_manager'[r] = <<hist[r].calls>>
               /\ last'.ok => last'.ret = hist[r].calls
               /\ class_id' = IDManager_id
               /\ \A q \in Instances \ {r} :
                      /\ id_manager'[q] = id_manager[q]
                      /\ report'[q] = report[q]]_vars

\* Both instances hold issues 0 and 1 of their own.
C4_Witness ==
    /\ \A r \in Instances :
          /\ hist[r].calls = 2
          /\ report[r] # NoReport
          /\ IssueIds(report[r]) = {0, 1}
          /\ id_manager[r] = <<1>>
    /\ last.op = "register_issue" /\ last.ok /\ last.ret = 1

----------------------------------------------------------------------------
(* The invariants of a checker *)

\* C5: every checker whose status is SKIPPED has an empty issue list, in
\* every state, those that a raising call leaves included.
C5_SkippedHasNoIssues ==
    \A bc \in CheckersOf(report["A"]) :
        CheckerAt(report["A"], bc).status = SKIPPED =>
            CheckerAt(report["A"], bc).issues = <<>>

\* C6: the rule_uid of every issue of a checker is the rule_uid of one of the
\* checker's addressed rules, in every state, those that a raising call
\* leaves included.
C6_IssuesMatchAddressedRules ==
    \A p \in IssuesOf(report["A"]) :
        IssueAt(report["A"], p).rule_uid \in
            AddressedRuleUids(CheckerAt(report["A"], <<p[1], p[2]>>))

\* C7: register_issue on an existing checker, with a well-formed rule_uid that
\* none of the checker's addressed rules has, raises and returns no id.
C7_UnaddressedRuleUidRaises ==
    [][IssueStep("A") =>
          \A u \in WellFormedRuleUids :
              RuleUidPattern(u) =>
                  \A b \in {TwoBundle}, c \in IssueCheckerIds :
                      (\E bc \in Named(report["A"], b, c) :
                           u \notin AddressedRuleUids(CheckerAt(report["A"], bc)))
                      => \A d \in Descriptions, l \in Levels :
                             register_issue("A", b, c, d, l, u)
                             => (~last'.ok /\ last'.ret = None)]_vars

\* The call that just raised named a checker that addresses a rule and holds
\* an issue of it, and a rule_uid that the checker does not address.
C7_Witness ==
    /\ last.op = "register_issue" /\ ~last.ok
    /\ \E bc \in CheckersOf(report["A"]) :
          LET checker == CheckerAt(report["A"], bc)
              n == Len(checker.issues)
          IN /\ n = 2
             /\ checker.addressed_rule # <<>>
             /\ checker.issues[1].rule_uid \in AddressedRuleUids(checker)
             /\ checker.issues[n].issue_id = hist["A"].calls - 1
             /\ checker.issues[n].rule_uid \notin AddressedRuleUids(checker)

\* C8: on an existing bundle and checker, set_checker_status(.., SKIPPED)
\* raises if the checker holds an issue, and returns, leaving the status
\* SKIPPED, if it holds none.
C8_SkippedStatusNeedsNoIssues ==
    [][\A b \in BundleNames, c \in IssueCheckerIds :
           \A bc \in Named(report["A"], b, c) :
               set_checker_status("A", b, c, SKIPPED) =>
                   /\ last'.ok <=> CheckerAt(report["A"], bc).issues = <<>>
                   /\ last'.ok => CheckerAt(report'["A"], bc).status = SKIPPED]_vars

\* Every checker the calls can name exists, so the status call that just
\* raised was refused by a validator; the checker it named holds an issue of
\* an addressed rule, registered by a call that returned.
C8_Witness ==
    /\ last.op = "set_checker_status" /\ ~last.ok
    /\ \A b \in BundleNames, c \in IssueCheckerIds :
          Named(report["A"], b, c) # {}
    /\ hist["A"].calls = 1 /\ hist["A"].has_ok
    /\ \E bc \in CheckersOf(report["A"]) :
          LET checker == CheckerAt(report["A"], bc)
          IN /\ Len(checker.issues) = 1
             /\ check_issue_ruleUID_matches_addressed_rules(checker)

----------------------------------------------------------------------------
(* Names *)

\* The call raised and left the document as it was
RaisesUnchanged == ~last'.ok /\ report' = report

\* C9: register_checker_bundle with a name a bundle has, register_checker
\* with an id the bundle has, add_param_to_checker_bundle and
\* add_param_to_checker with a name the bundle or checker has, each raise and
\* leave the document as it was.
C9_DuplicateNameRaises ==
    [][/\ last'.op = "register_checker_bundle" =>
              \A b \in BundleNames :
                  (HasBundle(report["A"], b) /\ register_checker_bundle("A", b))
                  => RaisesUnchanged
       /\ last'.op = "register_checker" =>
              \A b \in BundleNames, c \in CheckerIds :
                  (Named(report["A"], b, c) # {} /\ register_checker("A", b, c))
                  => RaisesUnchanged
       /\ last'.op = "add_param_to_checker_bundle" =>
              \A b \in BundleNames, n \in ParamNames, v \in ParamValues :
                  (/\ HasBundle(report["A"], b)
                   /\ \E bi \in {get_checker_bundle_without_error(report["A"], b)} :
                          \E i \in 1..Len(report["A"].checker_bundles[bi].params) :
                              report["A"].checker_bundles[bi].params[i].name = n
                   /\ add_param_to_checker_bundle("A", b, n, v))
                  => RaisesUnchanged
       /\ last'.op = "add_param_to_checker" =>
              \A b \in BundleNames, c \in ParamCheckerIds, n \in ParamNames,
                 v \in ParamValues :
                  (/\ \E bc \in Named(report["A"], b, c) :
                          \E i \in 1..Len(CheckerAt(report["A"], bc).params) :
                              CheckerAt(report["A"], bc).params[i].name = n
                   /\ add_param_to_checker("A", b, c, n, v))
                  => RaisesUnchanged]_vars

\* Every bundle and checker the calls can name exists, so the
\* add_param_to_checker call that just raised named a param the checker has.
C9_Witness ==
    /\ last.op = "add_param_to_checker" /\ ~last.ok
    /\ \A b \in BundleNames, c \in ParamCheckerIds : Named(report["A"], b, c) # {}
    /\ \A bc \in CheckersOf(report["A"]) :
          CheckerAt(report["A"], bc).checker_id \in ParamCheckerIds =>
              Len(CheckerAt(report["A"], bc).params) = 1

\* C10: in the states that registrations reach from an empty Result, bundle
\* names are pairwise distinct in the document and checker ids are pairwise
\* distinct in each bundle.
C10_NamesDistinct ==
    report["A"] # NoReport =>
        LET bundles == report["A"].checker_bundles
        IN /\ \A i, j \in 1..Len(bundles) :
                  i # j => bundles[i].name # bundles[j].name
           /\ \A b \in 1..Len(bundles) :
                  \A i, j \in 1..Len(bundles[b].checkers) :
                      i # j => bundles[b].checkers[i].checker_id #
                                   bundles[b].checkers[j].checker_id

\* Two bundles of two checkers each, the same two ids in both, and a
\* register_checker call that was just refused.
C10_Witness ==
    /\ last.op = "register_checker" /\ ~last.ok
    /\ report["A"] # NoReport
    /\ Len(report["A"].checker_bundles) = 2
    /\ \A b \in 1..2 : Len(report["A"].checker_bundles[b].checkers) = 2

----------------------------------------------------------------------------
(* The rule uid codec and rule registration *)

FieldsMatch(fields) ==
    /\ EmanatingEntityPattern(fields[1])
    /\ StandardPattern(fields[2])
    /\ DefinitionSettingPattern(fields[3])
    /\ RuleFullNamePattern(fields[4])

FieldsOf(rule) ==
    <<rule.emanating_entity, rule.standard, rule.definition_setting, rule.rule_full_name>>

\* C14: for every quadruple of fields that each match their pattern, the
\* rule built from the four fields has a uid from which a rule built from the
\* uid alone has exactly the four fields.
C14_ComposeThenParseYieldsFields ==
    (last.op = "RuleType" /\ FieldsMatch(last.ret.fields)) =>
        /\ last.ok
        /\ FieldsOf(last.ret.rule) = last.ret.fields

C14_Witness ==
    /\ last.op = "RuleType"
    /\ last.ok
    /\ last.ret.fields = <<<<"t", ".", "c">>, <<"q", "c">>, <<"1", ".", "0">>,
                            <<"q", ".", "w">>>>
    /\ FieldsOf(last.ret.rule) = last.ret.fields

C16_NotFourPartsRaises ==
    [][last'.op = "register_rule_by_uid" =>
          \A c \in IssueCheckerIds, u \in RuleUidInputs :
              (/\ Len(Split(u, ":")) # 4
               /\ register_rule_by_uid("A", TwoBundle, c, u))
              => /\ ~last'.ok
                 /\ \A bc \in Named(report["A"], TwoBundle, c) :
                        CheckerAt(report'["A"], bc).addressed_rule =
                            CheckerAt(report["A"], bc).addressed_rule]_vars

\* C17: when register_rule_by_uid succeeds, the rule it appended has the
\* rule_uid that was passed in.  It does not when the uid has more than four
\* parts: the rule appended has the first four only.
C17_SuccessStoresGivenUid ==
    [][last'.op = "register_rule_by_uid" =>
          \A c \in IssueCheckerIds, u \in RuleUidInputs :
              (register_rule_by_uid("A", TwoBundle, c, u) /\ last'.ok)
              => \A bc \in Named(report["A"], TwoBundle, c) :
                     \E new \in {CheckerAt(report'["A"], bc).addressed_rule} :
                         Len(new) >= 1 /\ new[Len(new)].rule_uid = u]_vars

----------------------------------------------------------------------------
(* Calls that name a bundle, a checker or an issue that does not exist *)

NoChecker(doc, b, c) == Named(doc, b, c) = {}

NoIssue(doc, b, c, i) ==
    \A bc \in Named(doc, b, c) :
        \A k \in 1..Len(CheckerAt(doc, bc).issues) :
            CheckerAt(doc, bc).issues[k].issue_id # i

NotFoundUnchanged == ~last'.ok /\ last'.err = RuntimeError /\ report' = report

----------------------------------------------------------------------------
(* The Configuration *)

\* C11: the application names of the checker bundles of a Configuration are
\* pairwise distinct.  They are not: register_checker_bundle appends a bundle
\* whatever the document holds.
C11_ApplicationsDistinct ==
    configuration # NoConfig =>
        \A i, j \in 1..Len(configuration.checker_bundles) :
            i # j => configuration.checker_bundles[i].application #
                         configuration.checker_bundles[j].application

\* The index of the first of names, in insertion order, that equals wanted,
\* as a set: empty when there is none
FirstNamed(names, wanted) ==
    {i \in 1..Len(names) : names[i] = wanted /\ \A j \in 1..(i - 1) : names[j] # wanted}

ParamNamesOf(params) == [i \in 1..Len(params) |-> params[i].name]

\* The value of the first param of that name, None when there is none
FirstValue(params, param_name) ==
    IF FirstNamed(ParamNamesOf(params), param_name) = {} THEN None
    ELSE params[CHOOSE i \in FirstNamed(ParamNamesOf(params), param_name) : TRUE].value

\* The params at a scope: of the first bundle of that application, of the
\* first checker of that id in it, of the first report module of that
\* application; no params when there is no such bundle, checker or module
BundleParams(cfg, b) ==
    LET at == FirstNamed([i \in 1..Len(cfg.checker_bundles) |->
                             cfg.checker_bundles[i].application], b)
    IN IF at = {} THEN <<>> ELSE cfg.checker_bundles[CHOOSE i \in at : TRUE].params

CheckerParams(cfg, b, c) ==
    LET at == FirstNamed([i \in 1..Len(cfg.checker_bundles) |->
                             cfg.checker_bundles[i].application], b)
    IN IF at = {} THEN <<>>
       ELSE LET checkers == cfg.checker_bundles[CHOOSE i \in at : TRUE].checkers
                ct == FirstNamed([i \in 1..Len(checkers) |-> checkers[i].checker_id], c)
            IN IF ct = {} THEN <<>> ELSE checkers[CHOOSE i \in ct : TRUE].params

ReportParams(cfg, m) ==
    LET at == FirstNamed([i \in 1..Len(cfg.reports) |-> cfg.reports[i].application], m)
    IN IF at = {} THEN <<>> ELSE cfg.reports[CHOOSE i \in at : TRUE].params

\* C18: on a Configuration that holds a document, each of the four getters
\* returns the value of the first param, in insertion order, whose name
\* matches at the scope asked for, and None when the bundle, the checker, the
\* report module or the param does not exist.
C18_GettersReturnFirstMatch ==
    [][configuration # NoConfig =>
          /\ last'.op = "get_config_param" =>
                 \A n \in ConfigGetNames :
                     get_config_param(n)
                     => last'.ok /\ last'.ret = FirstValue(configuration.params, n)
          /\ last'.op = "get_checker_bundle_param" =>
                 \A b \in ConfigBundleNames, n \in ConfigGetNames :
                     get_checker_bundle_param(b, n)
                     => last'.ok /\ last'.ret = FirstValue(BundleParams(configuration, b), n)
          /\ last'.op = "get_checker_param" =>
                 \A b \in ConfigBundleNames, c \in ConfigGetCheckerIds,
                    n \in ConfigGetNames :
                     get_checker_param(b, c, n)
                     => last'.ok /\
                        last'.ret = FirstValue(CheckerParams(configuration, b, c), n)
          /\ last'.op = "get_report_module_param" =>
                 \A m \in ReportModuleNames, n \in ConfigGetNames :
                     get_report_module_param(m, n)
                     => last'.ok /\ last'.ret = FirstValue(ReportParams(configuration, m), n)]_vars

\* The file that names p1 twice at every scope is loaded and get_checker_param
\* returned the value of the first of the two.
C18_Witness ==
    /\ last.op = "get_checker_param" /\ last.ok /\ last.ret = "v1"
    /\ configuration = RepeatedParamConfig

GetterOps ==
    {"get_config_param", "get_checker_bundle_param", "get_checker_param",
     "get_report_module_param"}

\* C19: a param getter of a Configuration never raises, in any state of the
\* Configuration, one without a document included.  It does raise: on a
\* Configuration that was neither loaded nor registered into, the getters
\* read an attribute of None.
C19_GettersNeverRaise == last.op \in GetterOps => last.ok

ParamsBefore == IF configuration = NoConfig THEN <<>> ELSE configuration.params

\* What a getter returns after a setter appended <<name, value>> to params
AfterSet(params, name, value) ==
    IF FirstValue(params, name) = None THEN value ELSE FirstValue(params, name)

\* C20 as stated: after set_config_param(name, v) succeeds
\* get_config_param(name) returns v, and likewise for the bundle and the
\* checker scope.  It does not when the scope held a param of that name
\* before the call.
C20_GetReturnsValueJustSet ==
    [][/\ last'.op = "set_config_param" =>
              \A n \in ConfigParamNames, v \in ConfigParamValues :
                  (set_config_param(n, v) /\ last'.ok)
                  => Configuration_get_config_param(configuration', n).ret = v
       /\ last'.op = "set_checker_bundle_param" =>
              \A b \in ConfigBundleNames, n \in ConfigParamNames,
                 v \in ConfigParamValues :
                  (set_checker_bundle_param(b, n, v) /\ last'.ok)
                  => Configuration_get_checker_bundle_param(configuration', b, n).ret = v
       /\ last'.op = "set_checker_param" =>
              \A b \in ConfigBundleNames, c \in ConfigCheckerIds,
                 n \in ConfigParamNames, v \in ConfigParamValues :
                  (set_checker_param(b, c, n, v) /\ last'.ok)
                  => Configuration_get_checker_param(configuration', b, c, n).ret = v]_vars

\* C20, amended: after a set_*_param(name, v) call succeeds, the getter of
\* that scope returns v when the scope held no param of that name before the
\* call, and otherwise returns what it returned before the call, the value
\* of the first param of that name: the setters append and replace nothing.
C20_GetReturnsFirstValueSet ==
    [][/\ last'.op = "set_config_param" =>
              \A n \in ConfigParamNames, v \in ConfigParamValues :
                  (set_config_param(n, v) /\ last'.ok)
                  => Configuration_get_config_param(configuration', n) =
                         Return(AfterSet(ParamsBefore, n, v), configuration')
       /\ last'.op = "set_checker_bundle_param" =>
              \A b \in ConfigBundleNames, n \in ConfigParamNames,
                 v \in ConfigParamValues :
                  (set_checker_bundle_param(b, n, v) /\ last'.ok)
                  => Configuration_get_checker_bundle_param(configuration', b, n) =
                         Return(AfterSet(BundleParams(configuration, b), n, v),
                                configuration')
       /\ last'.op = "set_checker_param" =>
              \A b \in ConfigBundleNames, c \in ConfigCheckerIds,
                 n \in ConfigParamNames, v \in ConfigParamValues :
                  (set_checker_param(b, c, n, v) /\ last'.ok)
                  => Configuration_get_checker_param(configuration', b, c, n) =
                         Return(AfterSet(CheckerParams(configuration, b, c), n, v),
                                configuration')]_vars

\* get_checker_param returned the one value set_checker_param gave the
\* checker; the same holds a step earlier of the set_checker_param call.
C20_Witness ==
    /\ last.op = "get_checker_param" /\ last.ok /\ last.ret = "v2"
    /\ configuration # NoConfig
    /\ CheckerParams(configuration, "TestCheckerBundle", "TestChecker") =
           <<ParamType("p1", "v2")>>

----------------------------------------------------------------------------
(* Loading into a store that holds a document *)

\* C13: load_from_file on a Result or a Configuration that holds a document,
\* loaded or created by a registration or a setter, raises RuntimeError when
\* override is false and leaves the document as it was; with override true
\* and a file that loads, it returns and the document is the one a load of
\* that file into a new instance yields: nothing of the document before
\* remains.
C13_ReloadNeedsOverride ==
    [][/\ last'.op = "load_from_file" =>
              \A p \in ReportPaths, o \in BOOLEAN :
                  (report["A"] # NoReport /\ load_from_file("A", p, o))
                  => IF ~o
                     THEN ~last'.ok /\ last'.err = RuntimeError /\ report' = report
                     ELSE FileSystem(p) # NoFile =>
                              /\ last'.ok
                              /\ report'["A"] = Result_load_from_file(NoReport, p, FALSE).doc
       /\ last'.op = "Configuration.load_from_file" =>
              \A p \in ConfigPaths, o \in BOOLEAN :
                  (configuration # NoConfig /\ config_load_from_file(p, o))
                  => IF ~o
                     THEN /\ ~last'.ok /\ last'.err = RuntimeError
                          /\ configuration' = configuration
                     ELSE ConfigFileSystem(p) # NoFile =>
                              /\ last'.ok
                              /\ configuration' =
                                     Configuration_load_from_file(NoConfig, p, FALSE).doc]_vars

\* A Configuration that holds what set_config_param created (no file gives a
\* document without a report module) refused a load, and the Result holds the
\* demo file, which only a load gives it.
C13_Witness ==
    /\ last.op = "Configuration.load_from_file"
    /\ ~last.ok /\ last.err = RuntimeError
    /\ configuration # NoConfig
    /\ configuration.reports = <<>> /\ Len(configuration.params) = 1
    /\ report["A"] # NoReport
    /\ report["A"].version = "1.0.0"

----------------------------------------------------------------------------
(* Configuration: registrations and setters on a missing parent *)

ConfigRaisesUnchanged ==
    ~last'.ok /\ last'.err = RuntimeError /\ configuration' = configuration

\* No bundle of that application, or no document at all
NoConfigBundle(cfg, b) ==
    cfg = NoConfig \/ \A i \in 1..Len(cfg.checker_bundles) :
                          cfg.checker_bundles[i].application # b

\* No checker of that id in the first bundle of that application
NoConfigChecker(cfg, b, c) ==
    \/ NoConfigBundle(cfg, b)
    \/ \E i \in FirstNamed([k \in 1..Len(cfg.checker_bundles) |->
                                cfg.checker_bundles[k].application], b) :
           \A j \in 1..Len(cfg.checker_bundles[i].checkers) :
               cfg.checker_bundles[i].checkers[j].checker_id # c

\* C21: on a Configuration, register_checker, set_checker_bundle_param and
\* set_checker_param raise and leave the document as it was when there is no
\* document or no bundle of the name given (for set_checker_param: or no
\* checker of the id given in it); register_checker_bundle and
\* set_config_param on a Configuration without a document create a document
\* that holds the new bundle, or the new param, and nothing else.
C21_MissingParentRaisesAndRootIsCreated ==
    [][/\ last'.op = "Configuration.register_checker" =>
              \/ ConfigRaisesUnchanged
              \/ \A b \in ConfigBundleNames, c \in ConfigCheckerIds :
                     ~(/\ NoConfigBundle(configuration, b)
                       /\ config_register_checker(b, c, 1, 3))
       /\ last'.op = "set_checker_bundle_param" =>
              \/ ConfigRaisesUnchanged
              \/ \A b \in ConfigBundleNames, n \in ConfigParamNames,
                    v \in ConfigParamValues :
                     ~(/\ NoConfigBundle(configuration, b)
                       /\ set_checker_bundle_param(b, n, v))
       /\ last'.op = "set_checker_param" =>
              \/ ConfigRaisesUnchanged
              \/ \A b \in ConfigBundleNames, c \in ConfigCheckerIds,
                    n \in ConfigParamNames, v \in ConfigParamValues :
                     ~(/\ NoConfigChecker(configuration, b, c)
                       /\ set_checker_param(b, c, n, v))
       /\ last'.op = "Configuration.register_checker_bundle" =>
              \A b \in ConfigBundleNames :
                  (configuration = NoConfig /\ config_register_checker_bundle(b))
                  => /\ last'.ok
                     /\ configuration' =
                            [params |-> <<>>, reports |-> <<>>,
                             checker_bundles |-> <<[application |-> b, params |-> <<>>,
                                                    checkers |-> <<>>]>>]
       /\ last'.op = "set_config_param" =>
              \A n \in ConfigParamNames, v \in ConfigParamValues :
                  (configuration = NoConfig /\ set_config_param(n, v))
                  => /\ last'.ok
                     /\ configuration' =
                            [params |-> <<[name |-> n, value |-> v]>>, reports |-> <<>>,
                             checker_bundles |-> <<>>]]_vars

\* A document that holds one bundle with one checker, and a set_checker_param
\* call that named another bundle, or another checker, was refused.
C21_Witness ==
    /\ last.op = "set_checker_param" /\ ~last.ok /\ last.err = RuntimeError
    /\ configuration # NoConfig
    /\ Len(configuration.checker_bundles) = 1
    /\ Len(configuration.checker_bundles[1].checkers) = 1

-----------------------------------------------------------------------------
(* Configuration: the bundles of a document that can be written.           *)

ConfigBundleHasChild(bundle) == Len(bundle.params) + Len(bundle.checkers) >= 1

\* C22: in every state of a Configuration in which write_to_file succeeds,
\* every checker bundle of the document has at least one child, a param or a
\* checker.  It does not hold: register_checker_bundle builds the bundle and
\* the document without validation, and write_to_file writes what it finds.
C22_WrittenBundlesHaveChild ==
    (last.op = "Configuration.write_to_file" /\ last.ok)
    => \A i \in 1..Len(configuration.checker_bundles) :
           ConfigBundleHasChild(configuration.checker_bundles[i])

-----------------------------------------------------------------------------
(* Result.copy_param_from_config                                           *)

BundleNamesOf(doc) ==
    IF doc = NoReport THEN <<>>
    ELSE [b \in 1..Len(doc.checker_bundles) |-> doc.checker_bundles[b].name]

CheckerIdsOf(doc) ==
    IF doc = NoReport THEN <<>>
    ELSE [b \in 1..Len(doc.checker_bundles) |->
             [c \in 1..Len(doc.checker_bundles[b].checkers) |->
                 doc.checker_bundles[b].checkers[c].checker_id]]

ConfigOnlyBundle(doc, cfg) ==
    \E i \in 1..Len(cfg.checker_bundles) :
        \A b \in 1..Len(doc.checker_bundles) :
            doc.checker_bundles[b].name # cfg.checker_bundles[i].application

ConfigOnlyChecker(doc, cfg) ==
    \E i \in 1..Len(cfg.checker_bundles), b \in 1..Len(doc.checker_bundles) :
        /\ doc.checker_bundles[b].name = cfg.checker_bundles[i].application
        /\ \E k \in 1..Len(cfg.checker_bundles[i].checkers) :
               \A c \in 1..Len(doc.checker_bundles[b].checkers) :
                   doc.checker_bundles[b].checkers[c].checker_id
                       # cfg.checker_bundles[i].checkers[k].checker_id

\* C23: copy_param_from_config on a Result and a Configuration that both
\* hold a document returns, whatever bundles and checkers only the
\* Configuration names, and every call of it leaves the bundle names of the
\* Result and the checker ids of each bundle as they were.
C23_CopySkipsWhatOnlyConfigurationNames ==
    [][last'.op = "copy_param_from_config" =>
       \A r \in {last'.inst} :
           /\ (report[r] # NoReport /\ configuration # NoConfig) => last'.ok
           /\ BundleNamesOf(report'[r]) = BundleNamesOf(report[r])
           /\ CheckerIdsOf(report'[r]) = CheckerIdsOf(report[r])]_vars

\* A copy returned on a Result whose bundle lacks a checker the Configuration
\* names for it, from a Configuration that names a bundle the Result lacks.
C23_Witness ==
    /\ last.op = "copy_param_from_config" /\ last.ok
    /\ report["A"] # NoReport /\ configuration # NoConfig
    /\ Len(report["A"].checker_bundles) >= 1
    /\ ConfigOnlyBundle(report["A"], configuration)
    /\ ConfigOnlyChecker(report["A"], configuration)

\* The index of the first Configuration bundle of that application, 0 for none
MatchingConfigBundle(cfg, name) ==
    FirstIndex([i \in 1..Len(cfg.checker_bundles) |->
                   cfg.checker_bundles[i].application = name])

MatchingConfigChecker(config_bundle, checker_id) ==
    FirstIndex([k \in 1..Len(config_bundle.checkers) |->
                   config_bundle.checkers[k].checker_id = checker_id])

\* A Result bundle that held no params and that the Configuration names
CopiesIntoEmptyBundle(doc, cfg, b) ==
    /\ doc.checker_bundles[b].params = <<>>
    /\ MatchingConfigBundle(cfg, doc.checker_bundles[b].name) # 0

ConfigBundlesNamed(cfg, name) ==
    LET named(config_bundle) == config_bundle.application = name
    IN SelectSeq(cfg.checker_bundles, named)

\* The params of the Configuration checkers of that id in the bundles of that
\* application, in order
ConfigCheckerParamsNamed(cfg, name, checker_id) ==
    LET bundles == ConfigBundlesNamed(cfg, name)
        has_id(config_checker) == config_checker.checker_id = checker_id
        checkers == Concat([i \in 1..Len(bundles) |->
                               SelectSeq(bundles[i].checkers, has_id)])
    IN Concat([k \in 1..Len(checkers) |-> checkers[k].params])

ConfigBundleParamsNamed(cfg, name) ==
    LET bundles == ConfigBundlesNamed(cfg, name)
    IN Concat([i \in 1..Len(bundles) |-> bundles[i].params])

C33_CopyLeavesUnnamedBundles ==
    [][last'.op = "copy_param_from_config" =>
       \A r \in {last'.inst} :
           report[r] # NoReport =>
               \A b \in 1..Len(report[r].checker_bundles) :
                   (\/ configuration = NoConfig
                    \/ MatchingConfigBundle(configuration,
                                            report[r].checker_bundles[b].name) = 0)
                   => report'[r].checker_bundles[b].params
                          = report[r].checker_bundles[b].params]_vars

\* C33, amended: a copy_param_from_config that raises leaves the Result as it
\* was; one that returns leaves a Result bundle that the Configuration does
\* not name with the params it held followed by one param per name of a
\* global param of the Configuration, and with its checkers as they were: the
\* params of such a bundle are unchanged exactly when the Configuration holds
\* no global param.
C33_CopyAddsGlobalsToUnnamedBundles ==
    [][last'.op = "copy_param_from_config" =>
       \A r \in {last'.inst} :
           /\ ~last'.ok => report'[r] = report[r]
           /\ last'.ok =>
               \A b \in 1..Len(report[r].checker_bundles) :
                   MatchingConfigBundle(configuration,
                                        report[r].checker_bundles[b].name) = 0
                   => /\ report'[r].checker_bundles[b].params
                            = report[r].checker_bundles[b].params
                              \o DictItems(configuration.params)
                      /\ report'[r].checker_bundles[b].checkers
                            = report[r].checker_bundles[b].checkers
                      /\ (report'[r].checker_bundles[b].params
                             = report[r].checker_bundles[b].params)
                         <=> configuration.params = <<>>]_vars

\* A copy from a Configuration that holds a global param and a bundle with a
\* param, into a Result whose bundle the Configuration does not name: the
\* bundle holds the global param and nothing else.
C33_Witness ==
    /\ last.op = "copy_param_from_config" /\ last.ok
    /\ report["A"] # NoReport /\ configuration # NoConfig
    /\ Len(report["A"].checker_bundles) = 1
    /\ MatchingConfigBundle(configuration, report["A"].checker_bundles[1].name) = 0
    /\ Len(configuration.params) = 1
    /\ Len(configuration.checker_bundles) = 1
    /\ Len(configuration.checker_bundles[1].params) = 1
    /\ report["A"].checker_bundles[1].params = configuration.params

-----------------------------------------------------------------------------
(* Result: summaries                                                       *)

IsPrefix(before, after) ==
    /\ Len(before) <= Len(after)
    /\ SubSeq(after, 1, Len(before)) = before

\* The summaries of the bundles and checkers of doc1, found by name and id,
\* begin with what they were in doc
SummariesExtendedByName(doc, doc1) ==
    \A b \in 1..Len(doc.checker_bundles), b1 \in 1..Len(doc1.checker_bundles) :
        doc.checker_bundles[b].name = doc1.checker_bundles[b1].name =>
            /\ IsPrefix(doc.checker_bundles[b].summary, doc1.checker_bundles[b1].summary)
            /\ \A c \in 1..Len(doc.checker_bundles[b].checkers),
                  c1 \in 1..Len(doc1.checker_bundles[b1].checkers) :
                   doc.checker_bundles[b].checkers[c].checker_id
                       = doc1.checker_bundles[b1].checkers[c1].checker_id
                   => IsPrefix(doc.checker_bundles[b].checkers[c].summary,
                               doc1.checker_bundles[b1].checkers[c1].summary)

\* C25 as stated: for every operation of a Result, the summary of every
\* bundle and of every checker before the operation is a prefix of its summary
\* after it.  It is not for load_from_file with override, which puts the
\* document of the file in the place of the one the Result held.
C25_SummaryAppendOnlyForEveryOperation ==
    [][\A r \in Instances :
           (report[r] # NoReport /\ report'[r] # NoReport)
           => SummariesExtendedByName(report[r], report'[r])]_vars

\* The bundles and checkers of doc are those of doc1 at the same places, and
\* their summaries in doc1 begin with what they were in doc
SummariesExtendedInPlace(doc, doc1) ==
    /\ Len(doc.checker_bundles) <= Len(doc1.checker_bundles)
    /\ \A b \in 1..Len(doc.checker_bundles) :
           \E bundle \in {doc.checker_bundles[b]}, bundle1 \in {doc1.checker_bundles[b]} :
               /\ bundle.name = bundle1.name
               /\ IsPrefix(bundle.summary, bundle1.summary)
               /\ Len(bundle.checkers) <= Len(bundle1.checkers)
               /\ \A c \in 1..Len(bundle.checkers) :
                      /\ bundle.checkers[c].checker_id = bundle1.checkers[c].checker_id
                      /\ IsPrefix(bundle.checkers[c].summary, bundle1.checkers[c].summary)

\* C25, amended: for every operation of a Result other than a load_from_file
\* that succeeds, every bundle and every checker stays where it is and its
\* summary before the operation is a prefix of its summary after it; and
\* write_to_file with generate_summary leaves each summary as it was, or, when
\* it was not empty, as it was followed by a space, followed by the generated
\* text.
C25_SummaryAppendOnlyButForReload ==
    [][\A r \in Instances :
           (report[r] # NoReport /\ ~(last'.op = "load_from_file" /\ last'.ok))
           => /\ report'[r] # NoReport
              /\ SummariesExtendedInPlace(report[r], report'[r])
              /\ (last'.op = "write_to_file" /\ last'.inst = r /\ report'[r] # report[r])
                 => \A b \in 1..Len(report[r].checker_bundles) :
                        \E bundle \in {report[r].checker_bundles[b]} :
                            /\ report'[r].checker_bundles[b].summary
                                   = (IF bundle.summary = "" THEN "" ELSE bundle.summary \o " ")
                                     \o GeneratedBundleSummary(bundle)
                            /\ \A c \in 1..Len(bundle.checkers) :
                                   report'[r].checker_bundles[b].checkers[c].summary
                                       = (IF bundle.checkers[c].summary = "" THEN ""
                                          ELSE bundle.checkers[c].summary \o " ")
                                         \o GeneratedCheckerSummary(bundle.checkers[c])]_vars

\* A write_to_file that generated summaries left a bundle with the text added
\* by hand followed by the generated one, and its checker likewise.
C25_Witness ==
    /\ last.op = "write_to_file" /\ last.ok
    /\ report["A"] # NoReport
    /\ \E b \in 1..Len(report["A"].checker_bundles) :
           \E bundle \in {report["A"].checker_bundles[b]}, m \in ManualSummaries :
               /\ bundle.summary = m \o " " \o GeneratedBundleSummary(bundle)
               /\ \E c \in 1..Len(bundle.checkers) :
                      bundle.checkers[c].summary
                          = m \o " " \o GeneratedCheckerSummary(bundle.checkers[c])

-----------------------------------------------------------------------------
(* Result: queries                                                         *)

\* The variables, with the value a call returned as text: values returned by
\* different queries are of different kinds, and two of different kinds are
\* not compared
query_vars ==
    <<report, id_manager, class_id, hist, configuration, etree,
      last.inst, last.op, last.ok, last.err, ToString(last.ret)>>

\* Every checker of the document whose id is in the set is COMPLETED and has
\* no issue, and every id of the set names a checker of the document
EveryCheckerCompletedWithoutIssue(doc, check_id_set) ==
    /\ \A b \in 1..Len(doc.checker_bundles) :
           \A c \in 1..Len(doc.checker_bundles[b].checkers) :
               doc.checker_bundles[b].checkers[c].checker_id \in check_id_set
               => /\ doc.checker_bundles[b].checkers[c].status = COMPLETED
                  /\ doc.checker_bundles[b].checkers[c].issues = <<>>
    /\ \A id \in check_id_set :
           \E b \in 1..Len(doc.checker_bundles) :
               \E c \in 1..Len(doc.checker_bundles[b].checkers) :
                   doc.checker_bundles[b].checkers[c].checker_id = id

\* C26: all_checkers_completed_without_issue(S) returns true if and only if
\* every checker of the document whose checker_id is in S is COMPLETED and has
\* no issue and every id of S names a checker of the document.  It returns
\* true as well when two bundles hold a checker of the same id and only one
\* of the two is COMPLETED without issue.
C26_TrueIffEveryCheckerCompletedWithoutIssue ==
    [][last'.op = "all_checkers_completed_without_issue" =>
       \A r \in {last'.inst}, cs \in SUBSET CheckerIds :
           (report[r] # NoReport /\ all_checkers_completed_without_issue(r, cs))
           => /\ last'.ok
              /\ last'.ret = EveryCheckerCompletedWithoutIssue(report[r], cs)]_query_vars

\* No bundle holds more checkers, and no checker more issues
MaxPlace(doc) ==
    LET checkers == AllCheckers(doc)
    IN Len(checkers) + Len(AllIssues(doc))

\* The places <<bundle, checker, issue>> of the issues of the document that
\* bear the rule uid
PlacesOfRuleUid(doc, rule_uid) ==
    {p \in (1..Len(doc.checker_bundles)) \X (1..MaxPlace(doc)) \X (1..MaxPlace(doc)) :
        /\ p[2] <= Len(doc.checker_bundles[p[1]].checkers)
        /\ p[3] <= Len(doc.checker_bundles[p[1]].checkers[p[2]].issues)
        /\ doc.checker_bundles[p[1]].checkers[p[2]].issues[p[3]].rule_uid = rule_uid}

\* p comes before q in the document
PlaceBefore(p, q) ==
    \/ p[1] < q[1]
    \/ p[1] = q[1] /\ p[2] < q[2]
    \/ p[1] = q[1] /\ p[2] = q[2] /\ p[3] < q[3]

\* issues holds the issues at the places, one each, in the order of the places
IssuesAtPlacesInOrder(doc, places, issues) ==
    /\ Len(issues) = Cardinality(places)
    /\ \A p \in places :
           \E k \in {1 + Cardinality({q \in places : PlaceBefore(q, p)})} :
               issues[k] = doc.checker_bundles[p[1]].checkers[p[2]].issues[p[3]]

\* C27: get_issues_by_rule_uid(u) returns the issues of the whole document,
\* all bundles and all checkers, whose rule_uid is u, and no other, in the
\* order of the document; has_issue_in_rules(S) returns true if and only if
\* get_issues_by_rule_uid(u) is not empty for some u of S.
C27_IssuesByRuleUidAcrossDocument ==
    [][/\ last'.op = "get_issues_by_rule_uid" =>
           \A r \in {last'.inst}, u \in WellFormedRuleUids :
               (report[r] # NoReport /\ get_issues_by_rule_uid(r, u))
               => /\ last'.ok
                  /\ IssuesAtPlacesInOrder(report[r], PlacesOfRuleUid(report[r], u),
                                           last'.ret)
       /\ last'.op = "has_issue_in_rules" =>
           \A r \in {last'.inst}, us \in SUBSET WellFormedRuleUids :
               (report[r] # NoReport /\ has_issue_in_rules(r, us))
               => /\ last'.ok
                  /\ last'.ret
                         = (\E u \in us :
                                Result_get_issues_by_rule_uid(report[r], u).ret # <<>>)]_query_vars

\* get_issues_by_rule_uid returned two issues, the first of a checker of the
\* first bundle and the second of a checker of the second bundle.
C27_Witness ==
    /\ last.op = "get_issues_by_rule_uid" /\ last.ok
    /\ report["A"] # NoReport
    /\ Len(last.ret) = 2
    /\ Len(report["A"].checker_bundles) = 2
    /\ \E c \in 1..Len(report["A"].checker_bundles[1].checkers) :
           \E i \in 1..Len(report["A"].checker_bundles[1].checkers[c].issues) :
               last.ret[1] = report["A"].checker_bundles[1].checkers[c].issues[i]
    /\ \E c \in 1..Len(report["A"].checker_bundles[2].checkers) :
           \E i \in 1..Len(report["A"].checker_bundles[2].checkers[c].issues) :
               last.ret[2] = report["A"].checker_bundles[2].checkers[c].issues[i]

ResultQueryOps ==
    {"get_checker_bundle_names", "get_checker_ids", "get_issue_ids", "get_checker_results",
     "get_checker_result", "get_issues", "get_checker_issue_count",
     "get_checker_bundle_issue_count", "get_issue_count", "get_param_from_checker_bundle",
     "get_param_from_checker", "get_issues_by_rule_uid", "has_issue_in_rules",
     "has_issue_in_checkers", "all_checkers_completed_without_issue",
     "get_checker_status", "all_checkers_completed"}

\* C28: on a Result that holds a document no query fails or changes the
\* document, whatever bundle name or checker id it is given.  The queries
\* that name a bundle, or a bundle and a checker, do fail on a name or an id
\* the document does not hold: their lookups raise.
C28_QueriesNeverFail ==
    [][last'.op \in ResultQueryOps =>
       \A r \in {last'.inst} :
           report[r] # NoReport => (last'.ok /\ report' = report)]_query_vars

-----------------------------------------------------------------------------
(* Result: the locations of an issue                                       *)

LocationEntries(location) ==
    Len(location.file_location) + Len(location.xml_location)
    + Len(location.inertial_location)

EveryLocationHasEntry(doc) ==
    doc # NoReport =>
        \A b \in 1..Len(doc.checker_bundles) :
            \A c \in 1..Len(doc.checker_bundles[b].checkers) :
                \A i \in 1..Len(doc.checker_bundles[b].checkers[c].issues) :
                    \A k \in 1..Len(doc.checker_bundles[b].checkers[c].issues[i].locations) :
                        LocationEntries(
                            doc.checker_bundles[b].checkers[c].issues[i].locations[k]) >= 1

AddLocationOps == {"add_file_location", "add_xml_location", "add_inertial_location"}

\* doc1 is doc with one location more, the last, in one issue
OneLocationAppended(doc, doc1) ==
    \E b \in 1..Len(doc.checker_bundles) :
        \E c \in 1..Len(doc.checker_bundles[b].checkers) :
            \E i \in 1..Len(doc.checker_bundles[b].checkers[c].issues) :
                \E locations \in {doc1.checker_bundles[b].checkers[c].issues[i].locations} :
                    /\ Len(locations)
                           = Len(doc.checker_bundles[b].checkers[c].issues[i].locations) + 1
                    /\ doc1 = [doc EXCEPT
                                  !.checker_bundles[b].checkers[c].issues[i].locations =
                                      Append(@, locations[Len(locations)])]

\* The xml entries a successful add_xml_location is to store for the argument
XmlEntriesOf(xpath) ==
    IF IsStr(xpath) THEN <<[xpath |-> xpath.str]>>
    ELSE [k \in 1..Len(xpath.list) |-> [xpath |-> xpath.list[k].str]]

\* C29: every location stored in an issue holds at least one file, xml or
\* inertial entry; a successful add_file_location, add_xml_location or
\* add_inertial_location appends one location to one issue, the one named,
\* and changes nothing else; add_xml_location with one xpath string stores one
\* xml entry, with a list of n >= 1 xpaths the n entries in the order of the
\* list, and with an empty list it fails and leaves the document as it was.
C29_LocationsHoldAnEntry ==
    [][/\ \A r \in Instances : EveryLocationHasEntry(report'[r])
       /\ (last'.op \in AddLocationOps /\ last'.ok) =>
              OneLocationAppended(report[last'.inst], report'[last'.inst])
       /\ last'.op = "add_xml_location" =>
              \/ ~last'.ok /\ report' = report
              \/ /\ last'.ok
                 /\ \A r \in {last'.inst}, b \in BundleNames, c \in CheckerIds,
                       i \in IssueIdInputs, xpath \in XPaths, d \in Descriptions :
                        add_xml_location(r, b, c, i, xpath, d)
                        => /\ xpath # ListArg(<<>>)
                           /\ \E t \in {Resolve(report[r], b, c, i)} :
                                  \E locations \in
                                      {report'[r].checker_bundles[t.b].checkers[t.c]
                                           .issues[t.i].locations} :
                                      /\ locations[Len(locations)].xml_location
                                             = XmlEntriesOf(xpath)
                                      /\ locations[Len(locations)].file_location = <<>>
                                      /\ locations[Len(locations)].inertial_location
                                             = <<>>]_vars

\* add_xml_location with a list of two xpaths left the issue with a location
\* of the two entries, in the order of the list.
C29_Witness ==
    /\ last.op = "add_xml_location" /\ last.ok
    /\ report["A"] # NoReport
    /\ \E b \in 1..Len(report["A"].checker_bundles) :
           \E c \in 1..Len(report["A"].checker_bundles[b].checkers) :
               \E i \in 1..Len(report["A"].checker_bundles[b].checkers[c].issues) :
                   \E locations \in
                       {report["A"].checker_bundles[b].checkers[c].issues[i].locations} :
                       /\ Len(locations) = 1
                       /\ locations[1].xml_location = <<[xpath |-> "/a"], [xpath |-> "/b"]>>


----------------------------------------------------------------------------
(* Order of the children of a Config file *)

\* The same elements the same number of times
SameBag(s, t) ==
    /\ Len(s) = Len(t)
    /\ \A i \in 1..Len(s) :
        Cardinality({j \in 1..Len(s) : s[j] = s[i]})
            = Cardinality({j \in 1..Len(t) : t[j] = s[i]})

SameConfigBundle(a, b) ==
    /\ a.application = b.application
    /\ SameBag(a.params, b.params)
    /\ SameBag(a.checkers, b.checkers)

SameConfigBundles(s, t) ==
    /\ Len(s) = Len(t)
    /\ \A i \in 1..Len(s) :
        Cardinality({j \in 1..Len(s) : SameConfigBundle(s[j], s[i])})
            = Cardinality({j \in 1..Len(t) : SameConfigBundle(t[j], s[i])})

TaggedChildren(children, tag) == SelectSeq(children, LAMBDA e : e.tag = tag)

\* The children of each tag stand in the same order in both files, at the
\* top and inside every bundle
KeepsOrderPerTag(f, g) ==
    /\ \A tag \in {"Param", "ReportModule"} :
        TaggedChildren(f, tag) = TaggedChildren(g, tag)
    /\ LET bf == TaggedChildren(f, "CheckerBundle")
           bg == TaggedChildren(g, "CheckerBundle")
       IN /\ Len(bf) = Len(bg)
          /\ \A i \in 1..Len(bf) :
                /\ bf[i].name = bg[i].name
                /\ \A tag \in {"Param", "Checker"} :
                    TaggedChildren(bf[i].children, tag)
                        = TaggedChildren(bg[i].children, tag)

\* C31: two Config files that hold the same children in different orders, at
\* the top and inside the bundles, are both refused or both load, and then
\* into documents with as many params, report modules and bundles as the file
\* has children of each tag, and with the same params, the same report modules
\* and the same bundles (each with the same params and checkers); when the
\* children of one tag keep their order among themselves, the two documents
\* are equal.
C31_LoadIgnoresOrderOfChildren ==
    last.op = "Config.from_xml" =>
        LET f == last.ret.files[1]
            g == last.ret.files[2]
            p == last.ret.parsed[1]
            q == last.ret.parsed[2]
        IN /\ p.ok = q.ok
           /\ p.ok =>
                /\ Len(p.value.params) = Len(TaggedChildren(f, "Param"))
                /\ Len(p.value.reports) = Len(TaggedChildren(f, "ReportModule"))
                /\ Len(p.value.checker_bundles) = Len(TaggedChildren(f, "CheckerBundle"))
                /\ SameBag(p.value.params, q.value.params)
                /\ SameBag(p.value.reports, q.value.reports)
                /\ SameConfigBundles(p.value.checker_bundles, q.value.checker_bundles)
                /\ KeepsOrderPerTag(f, g) => p.value = q.value

C31_Witness ==
    /\ last.op = "Config.from_xml"
    /\ LET f == last.ret.files[1]
           g == last.ret.files[2]
       IN /\ Len(f) = 3
          /\ f[1].tag = "CheckerBundle" /\ Len(f[1].children) = 2
          /\ f[1].children[1].tag = "Param"
          /\ f[2].tag = "Param" /\ f[3].tag = "ReportModule"
          /\ g[1].tag = "ReportModule" /\ g[2].tag = "CheckerBundle"
          /\ g[2].children[1].tag = "Checker"
          /\ last.ret.parsed[1].ok
          /\ last.ret.parsed[1].value = last.ret.parsed[2].value

----------------------------------------------------------------------------
(* Result: the version of the report *)

\* C34: every set_result_version(v) call returns, on a Result that holds no
\* document as on one that holds one, and leaves a report root with version v
\* and the bundles that were there before.
C34_SetResultVersionSucceeds ==
    [][\A r \in Instances :
           (last'.op = "set_result_version" /\ last'.inst = r)
           => /\ last'.ok
              /\ report'[r] # NoReport
              /\ \E v \in ResultVersions :
                    /\ set_result_version(r, v)
                    /\ report'[r].version = v
              /\ report'[r].checker_bundles
                    = (IF report[r] = NoReport THEN <<>>
                       ELSE report[r].checker_bundles)]_vars

----------------------------------------------------------------------------
(* Result: what is registered stays where it is *)

\* The registered fields of the issues of before are those of the issues at
\* the same places of after
IssuesKept(before, after) ==
    /\ Len(before) <= Len(after)
    /\ \A i \in 1..Len(before) :
        /\ before[i].issue_id = after[i].issue_id
        /\ before[i].description = after[i].description
        /\ before[i].level = after[i].level
        /\ before[i].rule_uid = after[i].rule_uid

\* The params of before are the params at the same places of after (a value
\* is a number or a string)
ParamsKept(before, after) ==
    /\ Len(before) <= Len(after)
    /\ \A i \in 1..Len(before) :
        /\ before[i].name = after[i].name
        /\ ToString(before[i].value) = ToString(after[i].value)

\* The bundles of doc are the first bundles of doc1, the checkers of each its
\* first checkers, and the rules, issues and params of each checker, and the
\* params of each bundle, the first of what doc1 holds
AppendedOnly(doc, doc1) ==
    /\ Len(doc.checker_bundles) <= Len(doc1.checker_bundles)
    /\ \A b \in 1..Len(doc.checker_bundles) :
        \E bundle \in {doc.checker_bundles[b]}, bundle1 \in {doc1.checker_bundles[b]} :
            /\ bundle.name = bundle1.name
            /\ ParamsKept(bundle.params, bundle1.params)
            /\ Len(bundle.checkers) <= Len(bundle1.checkers)
            /\ \A c \in 1..Len(bundle.checkers) :
                \E checker \in {bundle.checkers[c]}, checker1 \in {bundle1.checkers[c]} :
                    /\ checker.checker_id = checker1.checker_id
                    /\ IsPrefix(checker.addressed_rule, checker1.addressed_rule)
                    /\ ParamsKept(checker.params, checker1.params)
                    /\ IssuesKept(checker.issues, checker1.issues)

----------------------------------------------------------------------------
(* Result: domain specific information *)

\* One new element per element given, with its content, in the order given
CopiesOf(xml_info) ==
    [k \in 1..Len(xml_info) |-> etree_Element(None, xml_info[k].tag)]

\* C35: an add_domain_specific_info that returns appends exactly one
\* container to the end of the list of the issue it names, with the name
\* given and one child per element given, in the order given, also when an
\* element is given twice or was given to an earlier call; it changes nothing
\* else in the document and leaves the caller's elements where they were.  A
\* call that raises changes nothing.  get_domain_specific_info returns one
\* entry per container of the issue, in order, with its name and as many
\* content elements as it has children, and changes nothing.
C35_InfoAppendsOneContainerOfCopies ==
    [][\A r \in Instances :
        /\ (last'.op = "add_domain_specific_info" /\ last'.inst = r /\ ~last'.ok)
           => (report' = report /\ etree' = etree)
        /\ (last'.op = "add_domain_specific_info" /\ last'.inst = r /\ last'.ok)
           => /\ etree' = etree
              /\ \E c \in IssueCheckerIds, i \in IssueIdInputs, n \in InfoNameInputs,
                    x \in XmlInfoInputs :
                     /\ add_domain_specific_info(r, TwoBundle, c, i, n, x)
                     /\ \E t \in {Resolve(report[r], TwoBundle, c, i)} :
                         report'[r]
                             = [report[r] EXCEPT
                                   !.checker_bundles[t.b].checkers[t.c].issues[t.i]
                                    .domain_specific_info =
                                       Append(@, [name |-> n, children |-> CopiesOf(x)])]
        /\ (last'.op = "get_domain_specific_info" /\ last'.inst = r)
           => /\ report' = report /\ etree' = etree
              /\ last'.ok =>
                  \E c \in IssueCheckerIds, i \in IssueIdInputs :
                      /\ get_domain_specific_info(r, TwoBundle, c, i)
                      /\ \E t \in {Resolve(report[r], TwoBundle, c, i)} :
                          \E infos \in {report[r].checker_bundles[t.b].checkers[t.c]
                                            .issues[t.i].domain_specific_info} :
                              /\ Len(last'.ret) = Len(infos)
                              /\ \A k \in 1..Len(infos) :
                                  /\ last'.ret[k].name = infos[k].name
                                  /\ Len(last'.ret[k].content) = Len(infos[k].children)
      ]_query_vars

\* An issue was given one element under one name and then the same element
\* twice under another, and get_domain_specific_info returned the two entries.
C35_Witness ==
    /\ last.op = "get_domain_specific_info" /\ last.ok
    /\ Len(last.ret) = 2
    /\ last.ret[1].name = "TestSpecificInfo" /\ Len(last.ret[1].content) = 1
    /\ last.ret[2].name = "DebugInfo" /\ Len(last.ret[2].content) = 2
    /\ last.ret[1].content[1].tag = "TestCustomTag"
    /\ last.ret[2].content[1].tag = "TestCustomTag"
    /\ last.ret[2].content[2].tag = "TestCustomTag"
    /\ \A e \in ElementIds : etree[e] = None

----------------------------------------------------------------------------
(* Result: register_issue and set_checker_status calls that raise *)

\* The issues of every checker, bundle by bundle
IssueListsOf(doc) ==
    IF doc = NoReport THEN <<>>
    ELSE [b \in 1..Len(doc.checker_bundles) |->
             [c \in 1..Len(doc.checker_bundles[b].checkers) |->
                 doc.checker_bundles[b].checkers[c].issues]]

\* What get_issue_count returns, 0 on no document
IssueCountOf(doc) ==
    IF doc = NoReport THEN 0 ELSE Result_get_issue_count(doc).ret

\* C36: a register_issue call that raises leaves the issues of every checker,
\* and with them what get_checker_issue_count, get_checker_bundle_issue_count
\* and get_issue_count return, as they were before the call.
C36_FailedRegisterIssueLeavesIssues ==
    [][\A r \in Instances :
           (last'.op = "register_issue" /\ last'.inst = r /\ ~last'.ok)
           => /\ IssueListsOf(report'[r]) = IssueListsOf(report[r])
              /\ IssueCountOf(report'[r]) = IssueCountOf(report[r])
              /\ report[r] # NoReport =>
                    \A b \in BundleNames :
                        /\ Result_get_checker_bundle_issue_count(report'[r], b).ret
                               = Result_get_checker_bundle_issue_count(report[r], b).ret
                        /\ \A c \in CheckerIds :
                               Result_get_checker_issue_count(report'[r], b, c).ret
                                   = Result_get_checker_issue_count(report[r], b, c).ret]_query_vars

\* C37: a register_issue call with a level that is an IssueSeverity and a
\* rule_uid that the checker it names addresses returns when the checker
\* exists and its status is not SKIPPED, whatever calls were made before it.
C37_ValidRegisterIssueReturns ==
    [][IssueStep("A") =>
          \A b \in BundleNames, c \in IssueCheckerIds, u \in WellFormedRuleUids :
              (\E bc \in Named(report["A"], b, c) :
                   /\ u \in AddressedRuleUids(CheckerAt(report["A"], bc))
                   /\ CheckerAt(report["A"], bc).status # SKIPPED)
              => \A d \in Descriptions, l \in Levels \cap IssueSeverity :
                     register_issue("A", b, c, d, l, u) => last'.ok]_query_vars

\* The status of every checker, bundle by bundle
StatusesOf(doc) ==
    IF doc = NoReport THEN <<>>
    ELSE [b \in 1..Len(doc.checker_bundles) |->
             [c \in 1..Len(doc.checker_bundles[b].checkers) |->
                 doc.checker_bundles[b].checkers[c].status]]

\* Every checker of the document passes the validators of CheckerType
AllCheckersValid(doc) ==
    doc # NoReport
    /\ \A b \in 1..Len(doc.checker_bundles) :
          \A c \in 1..Len(doc.checker_bundles[b].checkers) :
              CheckerType_model_validate(doc.checker_bundles[b].checkers[c])

\* C38: a set_checker_status call that raises, made on a document whose
\* checkers all validate, leaves the status of every checker, and with it
\* what get_checker_status and all_checkers_completed return, as they were
\* before the call.
C38_FailedSetStatusLeavesStatus ==
    [][\A r \in Instances :
           (/\ last'.op = "set_checker_status" /\ last'.inst = r /\ ~last'.ok
            /\ AllCheckersValid(report[r]))
           => /\ StatusesOf(report'[r]) = StatusesOf(report[r])
              /\ Result_all_checkers_completed(report'[r]).ret
                     = Result_all_checkers_completed(report[r]).ret
              /\ \A c \in CheckerIds :
                     Result_get_checker_status(report'[r], c).ret
                         = Result_get_checker_status(report[r], c).ret]_query_vars

----------------------------------------------------------------------------
(* Result: the names of the params at one scope *)

\* No two params of the list have the same name
DistinctNames(params) ==
    \A i, j \in 1..Len(params) : params[i].name = params[j].name => i = j

\* C39: in every state of a Result reached by registrations, add_param_to_
\* checker_bundle, add_param_to_checker and copy_param_from_config, the names
\* of the params are pairwise distinct within each bundle and within each
\* checker.
C39_ParamNamesDistinct ==
    \A r \in Instances :
        report[r] # NoReport =>
            \A b \in 1..Len(report[r].checker_bundles) :
                /\ DistinctNames(report[r].checker_bundles[b].params)
                /\ \A c \in 1..Len(report[r].checker_bundles[b].checkers) :
                       DistinctNames(report[r].checker_bundles[b].checkers[c].params)
=============================================================================
